---- MODULE Spec2Model ----
(***************************************************************************)
(* State-machine model of the story-content bot.                           *)
(*                                                                         *)
(*   Spec        the web dashboard's job control (src/web_app.py):         *)
(*               create_video requests, run_video_creation threads and     *)
(*               the delayed reset_status timer.                           *)
(*   SpecRender  one pipeline run (MainApp.run / WebMainApp.run_with_params*)
(*               around FFmpegVideoProcessor.create_video_ffmpeg), step by *)
(*               step, with the output directory as shared state.          *)
(*   SpecSeq     pipeline runs one after another, never two at a time,     *)
(*               over the same output directory.                           *)
(*   SpecPure    the computations and calls of the program studied on      *)
(*               their own, for each of a bounded set of arguments.        *)
(***************************************************************************)
EXTENDS Integers, Sequences, FiniteSets, TLC

VARIABLES
    \* ---- src/web_app.py ------------------------------------------------
    now,              \* time.time(), in seconds
    current_status,   \* global current_status
    last_request,     \* session['last_request'], one per browser session
    jobpc,            \* position of each run_video_creation thread
    timers,           \* armed threading.Timer objects (their due times)
    response,         \* the answer to the last create_video request
    \* ---- src/main.py: one pipeline run after another ---------------------
    clock,            \* int(time.time()), the second the file names carry
    files,            \* the output directory: the files that exist
    rid,              \* number of the pipeline run in progress (0: none yet)
    pc,               \* position of the run in the pipeline
    entry,            \* "cli" (MainApp.run) or "web" (run_with_params)
    content,          \* the script bundle the content stage returned
    music,            \* background_music_path is given and exists
    audio_path,       \* create_voiceover's result
    output_file,      \* create_video_ffmpeg: output_file
    subtitle_file,    \* create_video_ffmpeg: subtitle_file
    built_subtitle,   \* the file the caption builder wrote (history)
    reddit_card_path, \* create_video_ffmpeg: reddit_card_path
    card_saved,       \* the card image base.save() wrote (history)
    card_reading_time,\* create_video_ffmpeg: card_reading_time, in ms
    audio_duration,   \* create_video_ffmpeg: audio_duration, in ms
    random_imported,  \* the local name `random` is bound (line 1813 ran)
    stream,           \* the video filter graph built so far
    final_audio,      \* the audio mix built so far
    alignAttempts,    \* calls of model.transcribe in this run
    encodeRuns,       \* calls of ffmpeg.run(output) in this run
    events,           \* what the render driver did, in order
    final_video_path, \* what create_video_ffmpeg returned
    failure,          \* the stage that ended the run ("none": no failure)
    outcome,          \* what the caller of the pipeline observes
    \* ---- the computations and calls studied on their own, one at a time --
    fn,               \* the computation under study ("none": none)
    input,            \* its arguments
    result,           \* what it returned; for a call of several steps
                      \* (a fetch, a narration, runs), the call so far
    applied           \* it has been carried out

webvars == <<now, current_status, last_request, jobpc, timers, response>>

rendervars == <<clock, files, rid, pc, entry, content, music, audio_path,
                output_file, subtitle_file, built_subtitle, reddit_card_path,
                card_saved, card_reading_time, audio_duration, random_imported,
                stream, final_audio, alignAttempts, encodeRuns, events,
                final_video_path, failure, outcome>>

purevars == <<fn, input, result, applied>>

vars == <<webvars, rendervars, purevars>>

(***************************************************************************)
(* Bounds of the model (not program constants).                            *)
(***************************************************************************)
NumSessions == 2      \* browser sessions that are logged in
MaxJobs     == 3      \* threads ever started in one behaviour
StartTime   == 40     \* the clock when the server starts
TickSeconds == 15     \* granularity of the modelled clock
EndTime     == 100    \* the clock stops advancing here

(***************************************************************************)
(* Program constants.                                                      *)
(***************************************************************************)
RATE_LIMIT_SECONDS == 30     \* rate_limit_check: current_time - last < 30
RESET_DELAY        == 30     \* threading.Timer(30.0, reset_status)

Sessions == 1 .. NumSessions
JobIds   == 1 .. MaxJobs

\* What a create_video request carries (request.get_json() and its fields).
RequestBodies == {"valid", "no_json", "bad_content_type", "get_json_raises"}

NoResponse == [session |-> 0, code |-> 0, started |-> 0]

\* A run_video_creation thread exists and has not finished its finally block.
JobActive(j) == jobpc[j] \in {"started", "running", "ended"}

ActiveJobs == {j \in JobIds : JobActive(j)}

UnbornJobs == {j \in JobIds : jobpc[j] = "unborn"}

\* A faulty rate limit: half the waiting time.
RateLimitPassesEarly(s) == ~(2 * (now - last_request[s]) < RATE_LIMIT_SECONDS)

\* rate_limit_check(): TRUE when the request passes.
RateLimitPasses(s) == ~(now - last_request[s] < RATE_LIMIT_SECONDS)

\* The status test of create_video: TRUE when the request is turned away.
StatusRejects == current_status # "idle"

InitWeb ==
    /\ now = StartTime
    /\ current_status = "idle"
    /\ last_request = [s \in Sessions |-> 0]
    /\ jobpc = [j \in JobIds |-> "unborn"]
    /\ timers = {}
    /\ response = NoResponse

\* POST /api/create_video from session s: the whole handler.
CreateVideo(s, body) ==
    IF ~RateLimitPasses(s)
    THEN /\ response' = [session |-> s, code |-> 429, started |-> 0]
         /\ UNCHANGED <<now, current_status, last_request, jobpc, timers, rendervars, purevars>>
    ELSE /\ last_request' = [last_request EXCEPT ![s] = now]
         /\ IF StatusRejects \/ body \in {"no_json", "bad_content_type"}
            THEN /\ response' = [session |-> s, code |-> 400, started |-> 0]
                 /\ UNCHANGED <<now, current_status, jobpc, timers, rendervars, purevars>>
            ELSE IF body = "get_json_raises"
            THEN /\ response' = [session |-> s, code |-> 500, started |-> 0]
                 /\ UNCHANGED <<now, current_status, jobpc, timers, rendervars, purevars>>
            ELSE /\ UnbornJobs # {}
                 /\ LET j == CHOOSE k \in UnbornJobs : \A m \in UnbornJobs : k <= m
                    IN  /\ jobpc' = [jobpc EXCEPT ![j] = "started"]
                        /\ response' = [session |-> s, code |-> 200, started |-> j]
                 /\ UNCHANGED <<now, current_status, timers, rendervars, purevars>>

\* run_video_creation, first statements: current_status = "running".
JobSetRunning(j) ==
    /\ jobpc[j] = "started"
    /\ jobpc' = [jobpc EXCEPT ![j] = "running"]
    /\ current_status' = "running"
    /\ UNCHANGED <<now, last_request, timers, response, rendervars, purevars>>

\* run_video_creation: run_with_params returned.
JobCompleted(j) ==
    /\ jobpc[j] = "running"
    /\ jobpc' = [jobpc EXCEPT ![j] = "ended"]
    /\ current_status' = "completed"
    /\ UNCHANGED <<now, last_request, timers, response, rendervars, purevars>>

\* run_video_creation: run_with_params raised.
JobFailed(j) ==
    /\ jobpc[j] = "running"
    /\ jobpc' = [jobpc EXCEPT ![j] = "ended"]
    /\ current_status' = "error"
    /\ UNCHANGED <<now, last_request, timers, response, rendervars, purevars>>

\* run_video_creation, finally: arm the reset timer; the thread ends.
JobFinally(j) ==
    /\ jobpc[j] = "ended"
    /\ jobpc' = [jobpc EXCEPT ![j] = "done"]
    /\ timers' = timers \cup {[job |-> j, due |-> now + RESET_DELAY]}
    /\ UNCHANGED <<now, current_status, last_request, response, rendervars, purevars>>

\* reset_status(), called by a timer that is due.
ResetStatus(t) ==
    /\ t \in timers
    /\ now >= t.due
    /\ timers' = timers \ {t}
    /\ current_status' = "idle"
    /\ UNCHANGED <<now, last_request, jobpc, response, rendervars, purevars>>

\* Time passes.
Tick ==
    /\ now + TickSeconds <= EndTime
    /\ now' = now + TickSeconds
    /\ UNCHANGED <<current_status, last_request, jobpc, timers, response, rendervars, purevars>>

NextWeb ==
    \/ \E s \in Sessions, body \in RequestBodies : CreateVideo(s, body)
    \/ \E j \in JobIds : JobSetRunning(j)
    \/ \E j \in JobIds : JobCompleted(j)
    \/ \E j \in JobIds : JobFailed(j)
    \/ \E j \in JobIds : JobFinally(j)
    \/ \E t \in timers : ResetStatus(t)
    \/ Tick

(***************************************************************************)
(* src/main.py: the pipeline.                                              *)
(*                                                                         *)
(* Times are integers in milliseconds.  A time on the sped-up timeline is  *)
(* a fraction <<n, d>> (n/d milliseconds), so that x / 1.15 is exact:      *)
(* the multiplier 1.15 is written 115 (hundredths).                        *)
(***************************************************************************)

\* Bounds of the model of the pipeline.
MaxRenders == 2       \* pipeline runs in one behaviour, one after another
MaxClock   == 1       \* the clock's seconds are 0 .. MaxClock

\* Program constants.
VIDEO_SPEED    == 115      \* setpts 'PTS/1.15'
SUBTITLE_SPEED == 115      \* _adjust_subtitle_speed(subtitle_file, 1.15)
CARD_SPEED     == 115      \* card_reading_time / 1.15, audio_duration / 1.15
AUDIO_TEMPO    == 115      \* atempo 1.15
DEFAULT_READING_TIME == 3000   \* card_reading_time = 3.0; return None, 3.0
MIN_READING_TIME     == 3000   \* max(3.0, ...)
MS_PER_WORD          == 400    \* word_count / 2.5 seconds
LONG_TITLE_WORDS     == 15     \* if word_count > 15
LONG_TITLE_EXTRA     == 1000   \* reading_time += 1.0

\* Inputs of a run.
Titles         == {"Story"}            \* _make_safe_filename(content['title'])
TitleWords     == {5, 20}              \* words of the post's title
AudioDurations == {2000, 42000}        \* narration lengths, in ms
Entries        == {"cli", "web"}

\* ---- file names ---------------------------------------------------------
\* A name is its stem, the timestamp it carries and its extension, the
\* extension a sequence of tokens so that str.replace can be carried out.
Name(stem, ts, ext) == [stem |-> stem, ts |-> ts, ext |-> ext]

None == Name("None", 0, <<>>)

\* create_voiceover: f"voice_{int(time.time())}.mp3"
VoiceName(t) == Name("voice", t, <<".mp3">>)

\* _create_*_subtitles: f"temp_subtitles_{int(time.time())}.ass"
SubtitleName(t) == Name("temp_subtitles", t, <<".ass">>)

\* _create_reddit_card: f"reddit_card_link_{int(time.time())}.png"
CardName(t) == Name("reddit_card_link", t, <<".png">>)

\* create_video_ffmpeg: f"{safe_title}_{int(time.time())}.mp4"
OutputName(title, t) == Name(title, t, <<".mp4">>)

\* str.replace(old, new) on an extension: every token `old` becomes `new`.
RECURSIVE ReplaceTokens(_, _, _)
ReplaceTokens(ext, old, new) ==
    IF ext = <<>> THEN <<>>
    ELSE (IF Head(ext) = old THEN new ELSE <<Head(ext)>>)
         \o ReplaceTokens(Tail(ext), old, new)

\* name.replace(ext, f'_speed1.15{ext}')
WithSpeedSuffix(n, ext) ==
    Name(n.stem, n.ts, ReplaceTokens(n.ext, ext, <<"_speed1.15", ext>>))

EndsWith(n, ext) == n.ext # <<>> /\ n.ext[Len(n.ext)] = ext

\* _adjust_subtitle_speed: the name of the adjusted file.
AdjustedName(n) ==
    LET file_ext == IF EndsWith(n, ".ass") THEN ".ass" ELSE ".srt"
    IN  WithSpeedSuffix(n, file_ext)

\* ---- the output directory -------------------------------------------------
\* A file: its name, the run that wrote it last, and for a caption file the
\* speed its timestamps are divided by (100: as aligned; 0: not captions).
File(n, owner, speed) == [name |-> n, owner |-> owner, speed |-> speed]

Exists(fs, n) == \E f \in fs : f.name = n

FileAt(fs, n) == CHOOSE f \in fs : f.name = n

\* os.remove(n)
Remove(fs, n) == {f \in fs : f.name # n}

\* open(n, 'w') / save(n): creates the file or replaces what was there.
Write(fs, n, owner, speed) == Remove(fs, n) \cup {File(n, owner, speed)}

\* if os.path.exists(n): os.remove(n)
RemoveIfExists(fs, n) == IF Exists(fs, n) THEN Remove(fs, n) ELSE fs

\* create_video_ffmpeg, "Clean up temporary files" (lines 2114-2120).
CleanupSubtitles(fs, sub) ==
    IF sub # None /\ Exists(fs, sub)
    THEN LET f0 == Remove(fs, sub)
             f1 == RemoveIfExists(f0, WithSpeedSuffix(sub, ".srt"))
         IN  RemoveIfExists(f1, WithSpeedSuffix(sub, ".ass"))
    ELSE fs

\* ---- fractions ------------------------------------------------------------
Frac(n, d) == <<n, d>>

FracLeq(a, b) == a[1] * b[2] <= b[1] * a[2]

FracEq(a, b) == a[1] * b[2] = b[1] * a[2]

FracMin(a, b) == IF FracLeq(a, b) THEN a ELSE b

\* x / 1.15, the speed in hundredths.
DivSpeed(x, speed) == Frac(x * 100, speed)

\* _create_reddit_card: the reading time of a title of w words, in ms.
\* A faulty reading time: without the second added for a long title.
ReadingTimeWithoutExtra(w) ==
    IF w * MS_PER_WORD > MIN_READING_TIME
    THEN w * MS_PER_WORD ELSE MIN_READING_TIME

ReadingTime(w) ==
    LET base == IF w * MS_PER_WORD > MIN_READING_TIME
                THEN w * MS_PER_WORD ELSE MIN_READING_TIME
    IN  IF w > LONG_TITLE_WORDS THEN base + LONG_TITLE_EXTRA ELSE base

\* A faulty card_duration: the reading time is left on the original timeline.
CardDurationUnscaled(reading, audio) ==
    FracMin(Frac(reading, 1), DivSpeed(audio, CARD_SPEED))

\* create_video_ffmpeg: card_duration (line 1897).
CardDuration(reading, audio) ==
    FracMin(DivSpeed(reading, CARD_SPEED), DivSpeed(audio, CARD_SPEED))

\* ---- what the caller of the pipeline observes ------------------------------
Returned == [how |-> "return", msg |-> "None"]

Raised(msg) == [how |-> "raise", msg |-> msg]

Pending == [how |-> "pending", msg |-> ""]

\* The ways a run ends.
Failures == {"none", "content_raises_reddit", "content_raises_ai",
             "content_none", "tts_raises", "no_background", "render_none",
             "upload_raises"}

\* The stage of the pipeline a failure belongs to.
StageOf(f) ==
    CASE f \in {"content_raises_reddit", "content_raises_ai", "content_none"}
             -> "script"
      [] f = "tts_raises"    -> "speech"
      [] f = "no_background" -> "background"
      [] f = "render_none"   -> "render"
      [] f = "upload_raises" -> "upload"
      [] OTHER               -> "none"

\* MainApp.run (e = "cli") and WebMainApp.run_with_params (e = "web"): what
\* the caller gets when the run ends the way f.
Observe(e, f) ==
    CASE f = "content_raises_reddit"
             -> Raised("Reddit scraping failed. Please try again.")
      [] f = "content_raises_ai"
             -> Raised("AI content generation failed. Please try again.")
      [] f = "content_none"
             -> IF e = "web" THEN Raised("Failed to generate content")
                ELSE Returned
      [] f = "tts_raises"
             -> Raised("TTS creation failed with all attempts. Please try again.")
      [] f = "no_background"
             -> IF e = "web" THEN Raised("No background videos found")
                ELSE Returned
      [] f = "render_none"
             -> IF e = "web" THEN Raised("Failed to create final video")
                ELSE Returned
      [] f = "upload_raises" -> Raised("upload")
      [] OTHER -> Returned

NoContent == [reddit |-> FALSE, title |-> "", words |-> 0]

\* The locals of a run before it starts and after it has ended.
LocalsBlank ==
    /\ entry = "none"
    /\ content = NoContent
    /\ music = FALSE
    /\ audio_path = None
    /\ output_file = None
    /\ subtitle_file = None
    /\ built_subtitle = None
    /\ reddit_card_path = None
    /\ card_saved = None
    /\ card_reading_time = DEFAULT_READING_TIME
    /\ audio_duration = 0
    /\ random_imported = FALSE
    /\ stream = <<>>
    /\ final_audio = <<>>
    /\ alignAttempts = 0
    /\ encodeRuns = 0
    /\ events = <<>>
    /\ final_video_path = None
    /\ failure = "none"
    /\ outcome = Pending

InitRender ==
    /\ clock = 0
    /\ files = {}
    /\ rid = 0
    /\ pc = "idle"
    /\ LocalsBlank


\* No computation is under study.
NoPure ==
    /\ fn = "none"
    /\ input = 0
    /\ result = 0
    /\ applied = FALSE

Init == InitWeb /\ InitRender /\ NoPure

inputsV == <<entry, content, music>>
pathsV  == <<audio_path, output_file, subtitle_file, built_subtitle,
             reddit_card_path, card_saved>>
graphV  == <<stream, final_audio>>
countV  == <<alignAttempts, encodeRuns, events>>
probeV  == <<card_reading_time, audio_duration, random_imported>>
endV    == <<final_video_path, failure, outcome>>

\* The run ends the way f: the caller gets Observe(entry, f).
Finish(f) ==
    /\ pc' = "done"
    /\ failure' = f
    /\ outcome' = Observe(entry, f)

\* A filter of the video graph.
Filter(op, arg) == [op |-> op, arg |-> arg]

HasFilter(st, op) == \E i \in 1 .. Len(st) : st[i].op = op

FilterOf(st, op) == st[CHOOSE i \in 1 .. Len(st) : st[i].op = op]

\* MainApp.run / run_with_params is called.
BeginRun(e) ==
    /\ pc = "idle"
    /\ rid = 0
    /\ rid' = 1
    /\ entry' = e
    /\ pc' = "content"
    /\ UNCHANGED <<clock, files, content, music, pathsV, graphV, countV,
                   probeV, endV, webvars, purevars>>

\* 1. Generate Content: get_reddit_story / generate_content.
GenerateContent(src, res, t, w) ==
    /\ pc = "content"
    /\ CASE res = "ok" ->
              /\ content' = [reddit |-> (src = "reddit"), title |-> t,
                              words |-> IF src = "reddit" THEN w ELSE 0]
              /\ pc' = "voiceover"
              /\ UNCHANGED <<failure, outcome>>
         [] res = "raises" ->
              /\ Finish(IF src = "reddit" THEN "content_raises_reddit"
                        ELSE "content_raises_ai")
              /\ UNCHANGED content
         [] OTHER ->     \* _parse_json_response returned None
              /\ src = "ai"
              /\ Finish("content_none")
              /\ UNCHANGED content
    /\ UNCHANGED <<clock, files, rid, entry, music, pathsV, graphV, countV,
                   probeV, final_video_path, webvars, purevars>>

\* 2. Create Voiceover: create_voiceover.
CreateVoiceover(ok) ==
    /\ pc = "voiceover"
    /\ LET output == VoiceName(clock)
       IN  IF ok
           THEN /\ files' = Write(files, output, rid, 0)
                /\ audio_path' = output
                /\ pc' = "background"
                /\ UNCHANGED <<failure, outcome>>
           ELSE /\ files' = RemoveIfExists(files, output)
                /\ Finish("tts_raises")
                /\ UNCHANGED audio_path
    /\ UNCHANGED <<clock, rid, inputsV, output_file, subtitle_file,
                   built_subtitle, reddit_card_path, card_saved, graphV,
                   countV, probeV, final_video_path, webvars, purevars>>

\* 3. Get Background Video (and, in MainApp.run, background music).
GetBackground(found, m) ==
    /\ pc = "background"
    /\ IF found
       THEN /\ music' = (entry = "cli" /\ m)
            /\ pc' = "ffmpeg_probe"
            /\ UNCHANGED <<failure, outcome>>
       ELSE /\ Finish("no_background")
            /\ UNCHANGED music
    /\ UNCHANGED <<clock, files, rid, entry, content, pathsV, graphV, countV,
                   probeV, final_video_path, webvars, purevars>>

\* create_video_ffmpeg, lines 1797-1818: probe the narration and the clip.
ProbeInputs(ok, a, longer) ==
    /\ pc = "ffmpeg_probe"
    /\ IF ok
       THEN /\ audio_duration' = a
            /\ output_file' = OutputName(content.title, clock)
            /\ random_imported' = longer
            /\ pc' = "subtitles"
       ELSE /\ pc' = "ffmpeg_except"
            /\ UNCHANGED <<audio_duration, output_file, random_imported>>
    /\ UNCHANGED <<clock, files, rid, inputsV, audio_path, subtitle_file,
                   built_subtitle, reddit_card_path, card_saved,
                   card_reading_time, graphV, countV, endV, webvars, purevars>>

\* A faulty caption stage: a failed alignment escapes to the outer handler.
CreateSrtSubtitlesAborting(aligned) ==
    /\ pc = "subtitles"
    /\ alignAttempts' = alignAttempts + 1
    /\ IF aligned
       THEN /\ files' = Write(files, SubtitleName(clock), rid, 100)
            /\ subtitle_file' = SubtitleName(clock)
            /\ built_subtitle' = SubtitleName(clock)
            /\ pc' = "card"
       ELSE /\ pc' = "ffmpeg_except"
            /\ UNCHANGED <<files, subtitle_file, built_subtitle>>
    /\ UNCHANGED <<clock, rid, inputsV, audio_path, output_file,
                   reddit_card_path, card_saved, graphV, encodeRuns, events,
                   probeV, endV, webvars, purevars>>

\* _create_srt_subtitles (line 1821): one attempt at word alignment.
CreateSrtSubtitles(aligned) ==
    /\ pc = "subtitles"
    /\ alignAttempts' = alignAttempts + 1
    /\ IF aligned
       THEN /\ files' = Write(files, SubtitleName(clock), rid, 100)
            /\ subtitle_file' = SubtitleName(clock)
            /\ built_subtitle' = SubtitleName(clock)
       ELSE /\ subtitle_file' = None
            /\ UNCHANGED <<files, built_subtitle>>
    /\ pc' = "card"
    /\ UNCHANGED <<clock, rid, inputsV, audio_path, output_file,
                   reddit_card_path, card_saved, graphV, encodeRuns, events,
                   probeV, endV, webvars, purevars>>

\* Step 2.5 (lines 1823-1834) with _create_reddit_card.
CreateRedditCard(res) ==
    /\ pc = "card"
    /\ IF content.reddit
       THEN CASE res = "ok" ->
                   /\ files' = Write(files, CardName(clock), rid, 0)
                   /\ card_saved' = CardName(clock)
                   /\ reddit_card_path' = CardName(clock)
                   /\ card_reading_time' = ReadingTime(content.words)
              [] res = "throws_after_save" ->
                   /\ files' = Write(files, CardName(clock), rid, 0)
                   /\ card_saved' = CardName(clock)
                   /\ reddit_card_path' = None
                   /\ card_reading_time' = DEFAULT_READING_TIME
              [] OTHER ->
                   /\ reddit_card_path' = None
                   /\ card_reading_time' = DEFAULT_READING_TIME
                   /\ UNCHANGED <<files, card_saved>>
       ELSE /\ res = "ok"
            /\ UNCHANGED <<files, card_saved, reddit_card_path,
                           card_reading_time>>
    /\ pc' = "graph"
    /\ UNCHANGED <<clock, rid, inputsV, audio_path, output_file,
                   subtitle_file, built_subtitle, audio_duration,
                   random_imported, graphV, countV, endV, webvars, purevars>>

\* Lines 1836-1866: input, crop, scale, setpts.
BuildVideoGraph(ok) ==
    /\ pc = "graph"
    /\ IF ok
       THEN /\ stream' = <<Filter("crop", <<>>), Filter("scale", <<>>),
                           Filter("setpts", VIDEO_SPEED)>>
            /\ pc' = "adjust"
       ELSE /\ pc' = "ffmpeg_except"
            /\ UNCHANGED stream
    /\ UNCHANGED <<clock, files, rid, inputsV, pathsV, final_audio, countV,
                   probeV, endV, webvars, purevars>>

\* Lines 1868-1870 with _adjust_subtitle_speed.
AdjustSubtitleSpeed(res) ==
    /\ pc = "adjust"
    /\ IF subtitle_file # None
       THEN CASE res = "ok" ->
                   /\ files' = Write(files, AdjustedName(subtitle_file), rid,
                                     SUBTITLE_SPEED)
                   /\ subtitle_file' = AdjustedName(subtitle_file)
              [] res = "save_throws" ->
                   /\ files' = Write(files, AdjustedName(subtitle_file), rid,
                                     SUBTITLE_SPEED)
                   /\ UNCHANGED subtitle_file
              [] OTHER ->     \* pysubs2 missing or load throws
                   UNCHANGED <<files, subtitle_file>>
       ELSE /\ res = "ok"
            /\ UNCHANGED <<files, subtitle_file>>
    /\ pc' = "burn"
    /\ UNCHANGED <<clock, rid, inputsV, audio_path, output_file,
                   built_subtitle, reddit_card_path, card_saved, graphV,
                   countV, probeV, endV, webvars, purevars>>

\* Lines 1872-1888: the subtitles filter.
BurnSubtitles ==
    /\ pc = "burn"
    /\ stream' = IF subtitle_file # None
                 THEN Append(stream, Filter("subtitles", subtitle_file))
                 ELSE stream
    /\ pc' = "overlay"
    /\ UNCHANGED <<clock, files, rid, inputsV, pathsV, final_audio, countV,
                   probeV, endV, webvars, purevars>>

\* A faulty overlay stage: without the try, a failure escapes to the outer
\* handler.
AddOverlayUnguarded(ok, anim) ==
    /\ pc = "overlay"
    /\ IF reddit_card_path # None /\ Exists(files, reddit_card_path)
       THEN IF ok
            THEN /\ stream' = Append(stream,
                      Filter("overlay",
                             [from |-> 0,
                              to   |-> CardDuration(card_reading_time,
                                                    audio_duration),
                              card |-> reddit_card_path,
                              anim |-> anim]))
                 /\ pc' = "audio"
            ELSE /\ pc' = "ffmpeg_except"
                 /\ UNCHANGED stream
       ELSE /\ ok /\ anim = "slide"
            /\ pc' = "audio"
            /\ UNCHANGED stream
    /\ UNCHANGED <<clock, files, rid, inputsV, pathsV, final_audio, countV,
                   probeV, endV, webvars, purevars>>

\* Lines 1890-1974: the overlay of the card.
AddOverlay(ok, anim) ==
    /\ pc = "overlay"
    /\ IF reddit_card_path # None /\ Exists(files, reddit_card_path)
       THEN IF ok
            THEN stream' = Append(stream,
                     Filter("overlay",
                            [from |-> 0,
                             to   |-> CardDuration(card_reading_time,
                                                   audio_duration),
                             card |-> reddit_card_path,
                             anim |-> anim]))
            ELSE UNCHANGED stream
       ELSE /\ ok /\ anim = "slide"
            /\ UNCHANGED stream
    /\ pc' = "audio"
    /\ UNCHANGED <<clock, files, rid, inputsV, pathsV, final_audio, countV,
                   probeV, endV, webvars, purevars>>

\* Lines 1976-1980: the narration, sped up.
NarrationTempo(ok) ==
    /\ pc = "audio"
    /\ IF ok
       THEN /\ final_audio' = <<"narration">>
            /\ pc' = "ding"
       ELSE /\ pc' = "ffmpeg_except"
            /\ UNCHANGED final_audio
    /\ UNCHANGED <<clock, files, rid, inputsV, pathsV, stream, countV,
                   probeV, endV, webvars, purevars>>

\* Lines 1983-1999: the chime.
AddDing(present, ok) ==
    /\ pc = "ding"
    /\ final_audio' = IF present /\ ok THEN Append(final_audio, "ding")
                      ELSE final_audio
    /\ pc' = "swish"
    /\ UNCHANGED <<clock, files, rid, inputsV, pathsV, stream, countV,
                   probeV, endV, webvars, purevars>>

\* Lines 2001-2026: the swish.  random.choice needs the local name `random`,
\* which line 1813 binds only when the clip is longer than the narration.
AddSwish(present, ok) ==
    /\ pc = "swish"
    /\ final_audio' = IF present /\ reddit_card_path # None
                         /\ random_imported /\ ok
                      THEN Append(final_audio, "swish")
                      ELSE final_audio
    /\ pc' = "music"
    /\ UNCHANGED <<clock, files, rid, inputsV, pathsV, stream, countV,
                   probeV, endV, webvars, purevars>>

\* A faulty music stage: without the try, a failure escapes to the outer
\* handler.
AddMusicUnguarded(ok) ==
    /\ pc = "music"
    /\ IF music /\ ~ok
       THEN /\ pc' = "ffmpeg_except"
            /\ UNCHANGED final_audio
       ELSE /\ final_audio' = IF music THEN Append(final_audio, "music")
                              ELSE final_audio
            /\ pc' = "encode"
    /\ UNCHANGED <<clock, files, rid, inputsV, pathsV, stream, countV,
                   probeV, endV, webvars, purevars>>

\* Lines 2028-2075: the background music.
AddMusic(ok) ==
    /\ pc = "music"
    /\ final_audio' = IF music /\ ok THEN Append(final_audio, "music")
                      ELSE final_audio
    /\ pc' = "encode"
    /\ UNCHANGED <<clock, files, rid, inputsV, pathsV, stream, countV,
                   probeV, endV, webvars, purevars>>

\* Lines 2082-2098: ffmpeg.run(output).
RunFFmpeg(res) ==
    /\ pc = "encode"
    /\ encodeRuns' = encodeRuns + 1
    /\ CASE res = "ok" ->
              /\ files' = Write(files, output_file, rid, 0)
              /\ events' = Append(events, "run_ok")
              /\ pc' = "cleanup"
         [] res = "ffmpeg_error" ->     \* the encoder exited with an error
              /\ events' = Append(events, "run_failed")
              /\ pc' = "encode_failed"
              /\ UNCHANGED files
         [] OTHER ->                    \* the encoder could not be started
              /\ events' = Append(events, "run_not_started")
              /\ pc' = "ffmpeg_except"
              /\ UNCHANGED files
    /\ UNCHANGED <<clock, rid, inputsV, pathsV, graphV, alignAttempts,
                   probeV, endV, webvars, purevars>>

\* A faulty handler: the encoder's stderr is swallowed before the re-raise.
PrintStderrSilent ==
    /\ pc = "encode_failed"
    /\ pc' = "ffmpeg_except"
    /\ UNCHANGED <<clock, files, rid, inputsV, pathsV, graphV, countV,
                   probeV, endV, webvars, purevars>>

\* Lines 2099-2111: print the encoder's stderr, then re-raise.
PrintStderr ==
    /\ pc = "encode_failed"
    /\ events' = Append(events, "stderr")
    /\ pc' = "ffmpeg_except"
    /\ UNCHANGED <<clock, files, rid, inputsV, pathsV, graphV, alignAttempts,
                   encodeRuns, probeV, endV, webvars, purevars>>

\* Lines 2113-2129: clean up and return the output path.
CleanupAndReturn ==
    /\ pc = "cleanup"
    /\ files' = CleanupSubtitles(files, subtitle_file)
    /\ final_video_path' = output_file
    /\ events' = Append(events, "return_path")
    /\ pc' = "after_render"
    /\ UNCHANGED <<clock, rid, inputsV, pathsV, graphV, alignAttempts,
                   encodeRuns, probeV, failure, outcome, webvars, purevars>>

\* Lines 2131-2133: the outer handler returns None.
ReturnNone ==
    /\ pc = "ffmpeg_except"
    /\ final_video_path' = None
    /\ events' = Append(events, "return_none")
    /\ pc' = "after_render"
    /\ UNCHANGED <<clock, files, rid, inputsV, pathsV, graphV, alignAttempts,
                   encodeRuns, probeV, failure, outcome, webvars, purevars>>

\* MainApp.run 2783-2789, run_with_params 372-377: remove the narration,
\* then look at what create_video_ffmpeg returned.
AfterRender ==
    /\ pc = "after_render"
    /\ files' = RemoveIfExists(files, audio_path)
    /\ IF final_video_path = None
       THEN Finish("render_none")
       ELSE /\ pc' = "upload"
            /\ UNCHANGED <<failure, outcome>>
    /\ UNCHANGED <<clock, rid, inputsV, pathsV, graphV, countV, probeV,
                   final_video_path, webvars, purevars>>

\* The uploads; run_with_params lets their exceptions through.
Upload(ok) ==
    /\ pc = "upload"
    /\ IF ok \/ entry = "cli"
       THEN Finish("none")
       ELSE Finish("upload_raises")
    /\ UNCHANGED <<clock, files, rid, inputsV, pathsV, graphV, countV,
                   probeV, final_video_path, webvars, purevars>>

\* The run has returned to its caller and its locals are gone; the pipeline
\* is called again.
NextRun(e) ==
    /\ pc = "done"
    /\ rid < MaxRenders
    /\ rid' = rid + 1
    /\ pc' = "content"
    /\ entry' = e
    /\ content' = NoContent
    /\ music' = FALSE
    /\ audio_path' = None
    /\ output_file' = None
    /\ subtitle_file' = None
    /\ built_subtitle' = None
    /\ reddit_card_path' = None
    /\ card_saved' = None
    /\ card_reading_time' = DEFAULT_READING_TIME
    /\ audio_duration' = 0
    /\ random_imported' = FALSE
    /\ stream' = <<>>
    /\ final_audio' = <<>>
    /\ alignAttempts' = 0
    /\ encodeRuns' = 0
    /\ events' = <<>>
    /\ final_video_path' = None
    /\ failure' = "none"
    /\ outcome' = Pending
    /\ UNCHANGED <<clock, files, webvars, purevars>>

\* A second passes.  The clock is read only where a file name is drawn, so
\* a second that passes anywhere else is one that passes just before the
\* next name is drawn.
ClockTick ==
    /\ pc \in {"voiceover", "ffmpeg_probe", "subtitles", "card"}
    /\ clock < MaxClock
    /\ clock' = clock + 1
    /\ UNCHANGED <<files, rid, pc, inputsV, pathsV, graphV, countV, probeV,
                   endV, webvars, purevars>>

NextRender ==
    \/ \E e \in Entries : BeginRun(e)
    \/ \E src \in {"reddit", "ai"}, res \in {"ok", "raises", "none"},
          t \in Titles, w \in TitleWords : GenerateContent(src, res, t, w)
    \/ \E ok \in BOOLEAN : CreateVoiceover(ok)
    \/ \E found \in BOOLEAN, m \in BOOLEAN : GetBackground(found, m)
    \/ \E ok \in BOOLEAN, a \in AudioDurations, longer \in BOOLEAN :
          ProbeInputs(ok, a, longer)
    \/ \E aligned \in BOOLEAN : CreateSrtSubtitles(aligned)
    \/ \E res \in {"ok", "throws_before_save", "throws_after_save"} :
          CreateRedditCard(res)
    \/ \E ok \in BOOLEAN : BuildVideoGraph(ok)
    \/ \E res \in {"ok", "load_throws", "save_throws"} : AdjustSubtitleSpeed(res)
    \/ BurnSubtitles
    \/ \E ok \in BOOLEAN, anim \in {"slide", "zoom"} : AddOverlay(ok, anim)
    \/ \E ok \in BOOLEAN : NarrationTempo(ok)
    \/ \E present \in BOOLEAN, ok \in BOOLEAN : AddDing(present, ok)
    \/ \E present \in BOOLEAN, ok \in BOOLEAN : AddSwish(present, ok)
    \/ \E ok \in BOOLEAN : AddMusic(ok)
    \/ \E res \in {"ok", "ffmpeg_error", "not_started"} : RunFFmpeg(res)
    \/ PrintStderr
    \/ CleanupAndReturn
    \/ ReturnNone
    \/ AfterRender
    \/ \E ok \in BOOLEAN : Upload(ok)
    \/ ClockTick

\* One run of the pipeline.
SpecRender == Init /\ [][NextRender]_vars

\* Runs of the pipeline one after another, never two at a time.
NextSeq ==
    \/ NextRender
    \/ \E e \in Entries : NextRun(e)

SpecSeq == Init /\ [][NextSeq]_vars

Next == NextWeb

Spec == Init /\ [][Next]_vars

(***************************************************************************)
(* The computations of the program, each studied on its own.  The initial  *)
(* state names a computation and its arguments; one step carries it out.   *)
(* A call that goes through several invocations or attempts (fetching a    *)
(* post, making the narration, runs one after another) takes one step for  *)
(* each and keeps its state in `result`.                                   *)
(***************************************************************************)

\* The computation f is to be carried out on the arguments x.
Study(f, x) ==
    /\ fn = f
    /\ input = x
    /\ result = 0
    /\ applied = FALSE

\* The computation f is carried out and returns r.
Applies(f, r) ==
    /\ fn = f
    /\ ~applied
    /\ applied' = TRUE
    /\ result' = r
    /\ UNCHANGED <<fn, input, webvars, rendervars>>

\* The computation f has been carried out.
Applied(f) == fn = f /\ applied

\* ---- the start offset into the background clip (lines 1807-1818) ----------
RandomSteps == 4      \* random() is one of 0/4, 1/4, .. 4/4

ClipDurations == {2000, 30000, 42000, 90000}     \* clip lengths, in ms

\* random.uniform(a, b): a + (b - a) * random(), random() = u / RandomSteps.
Uniform(a, b, u) == Frac(a * RandomSteps + (b - a) * u, RandomSteps)

\* A faulty offset: drawn from the whole clip.
start_time_whole_clip(video_duration, audio, u) ==
    IF video_duration > audio
    THEN Uniform(0, video_duration, u)
    ELSE Frac(0, 1)

\* start_time, for a clip of video_duration ms and a narration of audio ms.
start_time(video_duration, audio, u) ==
    IF video_duration > audio
    THEN Uniform(0, video_duration - audio, u)
    ELSE Frac(0, 1)

StartInputs ==
    [video : ClipDurations, audio : AudioDurations, u : 0 .. RandomSteps]

PickStartOffset ==
    Applies("start_time",
            [start  |-> start_time(input.video, input.audio, input.u),
             raised |-> FALSE])

\* ---- the caption policies (lines 2167-2332) ----------------------------------
\* Whisper's word times are seconds as floats; here they are whole
\* microseconds, and a caption event's times are whole milliseconds.
MaxWords     == 6          \* words of one narration
WordDuration == 300000     \* a word lasts 0.3 s
WordGap      == 120500     \* a silence before a word, when there is one
ANIM_DURATION == 200       \* anim_duration = 200

Gaps == {0, WordGap}

\* word_info["word"] as Whisper gives it: a word, or nothing but blanks.
Texts == {" word", " "}

\* word_info["word"].strip().upper()
StripUpper(text) == IF text = " " THEN "" ELSE "WORD"

\* int(seconds * 1000): whole milliseconds, the fraction cut off.
Ms(us) == us \div 1000

\* The words of whisper_result["segments"], in order: word i starts after
\* the silence gap[i] that follows word i - 1.
RECURSIVE WordStart(_, _)
WordStart(gap, i) ==
    IF i = 1 THEN gap[1]
    ELSE WordStart(gap, i - 1) + WordDuration + gap[i]

TimedWords(gap, text) ==
    [i \in 1 .. Len(gap) |->
        [word  |-> text[i],
         start |-> WordStart(gap, i),
         end   |-> WordStart(gap, i) + WordDuration]]

WordSequences ==
    UNION {{TimedWords(gap, text) :
                gap \in [1 .. n -> Gaps], text \in [1 .. n -> Texts]} :
           n \in 0 .. MaxWords}

\* A caption event: pysubs2.SSAEvent(start, end, text).
SSAEvent(start, end, text) == [start |-> start, end |-> end, text |-> text]

\* A faulty single-word policy: the event ends with its animation.
single_word_events_anim_end(words) ==
    [i \in 1 .. Len(words) |->
        LET word_start == words[i].start
            word_end   == words[i].end
            anim_end   == IF Ms(word_start) + ANIM_DURATION < Ms(word_end)
                          THEN Ms(word_start) + ANIM_DURATION
                          ELSE Ms(word_end)
        IN  SSAEvent(Ms(word_start), anim_end, StripUpper(words[i].word))]

\* _create_single_word_subtitles: the events appended to subs, in order.
single_word_events(words) ==
    [i \in 1 .. Len(words) |->
        LET word_start == words[i].start
            word_end   == words[i].end
            word_text  == StripUpper(words[i].word)
        IN  SSAEvent(Ms(word_start), Ms(word_end), word_text)]

CreateSingleWordSubtitles ==
    Applies("single_word", single_word_events(input))

\* _create_three_word_highlight_subtitles, lines 2254-2263: all_words.
AllWords(words) ==
    [i \in 1 .. Len(words) |->
        [text  |-> StripUpper(words[i].word),
         start |-> words[i].start,
         end   |-> words[i].end]]

GROUP_SIZE == 3       \* range(0, len(all_words), 3); while len(group) < 3

\* The number of passes of the loop over range(0, len(all_words), 3).
GroupCount(all_words) == (Len(all_words) + GROUP_SIZE - 1) \div GROUP_SIZE

\* Lines 2269-2276: the g-th group, padded to three entries.
RECURSIVE Padded(_)
Padded(group) ==
    IF Len(group) < GROUP_SIZE
    THEN Padded(Append(group, [text  |-> "",
                               start |-> group[Len(group)].end,
                               end   |-> group[Len(group)].end]))
    ELSE group

Group(all_words, g) ==
    LET i    == GROUP_SIZE * (g - 1)
        last == IF i + GROUP_SIZE < Len(all_words) THEN i + GROUP_SIZE
                ELSE Len(all_words)
    IN  Padded(SubSeq(all_words, i + 1, last))

\* A faulty test: no entry of a group is skipped.
skips_nothing(word) == FALSE

\* Line 2285: `if not word["text"]: continue`.
skips(word) == word.text = ""

\* A faulty end: every highlight lasts to the end of its group.
highlight_end_of_group(group, word_idx) == group[Len(group)].end

\* Lines 2311-2319: the end of the highlight of the word_idx-th entry.
highlight_end(group, word_idx) ==
    IF word_idx < Len(group) /\ group[word_idx + 1].text # ""
    THEN group[word_idx + 1].start
    ELSE group[Len(group)].end

\* Lines 2293-2307: the line shown, the entry word_idx highlighted.
SubtitleText(group, word_idx) ==
    [line      |-> SelectSeq([i \in 1 .. Len(group) |-> group[i].text],
                             LAMBDA t : t # ""),
     highlight |-> word_idx]

\* Lines 2284-2329: the events of one group.
RECURSIVE GroupEvents(_, _)
GroupEvents(group, word_idx) ==
    IF word_idx > Len(group) THEN <<>>
    ELSE (IF skips(group[word_idx]) THEN <<>>
          ELSE <<SSAEvent(Ms(group[word_idx].start),
                          Ms(highlight_end(group, word_idx)),
                          SubtitleText(group, word_idx))>>)
         \o GroupEvents(group, word_idx + 1)

RECURSIVE EventsFrom(_, _)
EventsFrom(all_words, g) ==
    IF g > GroupCount(all_words) THEN <<>>
    ELSE GroupEvents(Group(all_words, g), 1) \o EventsFrom(all_words, g + 1)

\* _create_three_word_highlight_subtitles: the groups formed and the events
\* appended to subs, in order.
three_word_events(words) ==
    LET all_words == AllWords(words)
    IN  [groups |-> [g \in 1 .. GroupCount(all_words) |-> Group(all_words, g)],
         events |-> EventsFrom(all_words, 1)]

CreateThreeWordHighlightSubtitles ==
    Applies("three_words", three_word_events(input))

\* ---- the time rescale (_adjust_subtitle_speed, lines 1764-1791) ---------------
MaxStamp    == 120       \* event starts are Offsets + 0 .. MaxStamp, in ms
EventLength == 289       \* an event lasts this long, in ms

Offsets == {0, 41975}

\* A speed is the fraction num / den and whether its float lies above the
\* fraction (1 / 1.15 is 0.8695652173913044, above; 1.15 is not).
Speed(num, den, above) == [num |-> num, den |-> den, above |-> above]

S_115 == Speed(SUBTITLE_SPEED, 100, FALSE)

S_INVERSE == Speed(100, SUBTITLE_SPEED, TRUE)

\* A faulty rescale: the timestamp is multiplied by the speed.
rescaled_time_multiplied(t, speed, down) == (t * speed.num) \div speed.den

\* int(t / speed).  When the float of the speed lies above the fraction and
\* the exact quotient is a whole number, the float quotient may fall just
\* below it (down), and int() then gives one less.
rescaled_time(t, speed, down) ==
    LET q == (t * speed.den) \div speed.num
    IN  IF down /\ speed.above /\ t > 0 /\ (t * speed.den) % speed.num = 0
        THEN q - 1
        ELSE q

\* Lines 1774-1777: every line of the track.
rescaled_track(subs, speed, down) ==
    [i \in 1 .. Len(subs) |->
        [start |-> rescaled_time(subs[i].start, speed, down),
         end   |-> rescaled_time(subs[i].end, speed, down)]]

\* The subtitle files by name: the tracks stored in them.
StoredTracks(name, subs) == {[name |-> name, subs |-> subs]}

\* _adjust_subtitle_speed(subtitle_file, speed), load and save succeeding:
\* the file returned and the files as they are afterwards.
adjust_subtitle_speed(stored, file_name, speed, down) ==
    LET subs          == (CHOOSE f \in stored : f.name = file_name).subs
        adjusted_file == AdjustedName(file_name)
    IN  [returned |-> adjusted_file,
         stored   |-> {f \in stored : f.name # adjusted_file}
                      \cup {[name |-> adjusted_file,
                             subs |-> rescaled_track(subs, speed, down)]}]

Tracks ==
    {<<[start |-> o + t, end |-> o + t + EventLength]>> :
         o \in Offsets, t \in 0 .. MaxStamp}
    \cup {<<[start |-> t, end |-> t + EventLength],
            [start |-> t + EventLength, end |-> t + 2 * EventLength]>> :
              t \in 0 .. MaxStamp}

RescaleInputs ==
    [name : {SubtitleName(0), Name("captions", 0, <<".srt">>)},
     subs : Tracks]

AdjustSubtitleSpeedOnce ==
    Applies("rescale",
            adjust_subtitle_speed(StoredTracks(input.name, input.subs),
                                  input.name, S_115, FALSE))

\* ---- the crop to 9:16 (lines 1840-1860) --------------------------------------
TARGET_W == 9        \* target_ratio = 9/16
TARGET_H == 16

Widths  == {9, 607, 608, 720, 1080, 1280, 1920}     \* video_info['width']
Heights == {16, 720, 1080, 1081, 1600, 1920}        \* video_info['height']

\* A faulty crop: the rectangle is taken from the corner of the frame.
crop_from_corner(width, height) ==
    IF width * TARGET_H > height * TARGET_W
    THEN [w |-> (height * TARGET_W) \div TARGET_H, h |-> height,
          x |-> 0, y |-> 0]
    ELSE [w |-> width, h |-> (width * TARGET_H) \div TARGET_W,
          x |-> 0, y |-> 0]

\* The crop filter's arguments for a source of width x height pixels.
\* current_ratio > target_ratio is width / height > 9 / 16;
\* int(height * target_ratio) and int(width / target_ratio) cut the fraction.
crop(width, height) ==
    IF width * TARGET_H > height * TARGET_W
    THEN LET new_width == (height * TARGET_W) \div TARGET_H
             crop_x    == (width - new_width) \div 2
         IN  [w |-> new_width, h |-> height, x |-> crop_x, y |-> 0]
    ELSE LET new_height == (width * TARGET_H) \div TARGET_W
             crop_y     == (height - new_height) \div 2
         IN  [w |-> width, h |-> new_height, x |-> 0, y |-> crop_y]

CropInputs == [width : Widths, height : Heights]

CropToVertical == Applies("crop", crop(input.width, input.height))

\* ---- the slide animation of the card (lines 1929-1956) -------------------------
\* t is in whole milliseconds; a position is in units of 1/100000 pixel.
PX == 100 * 1000

SLIDE_DURATION   == 800      \* slide_duration = 0.8
WOBBLE_START     == 800      \* wobble_start = 0.8
FREEZE_T         == 1400     \* freeze_t = 1.4
WOBBLE_AMPLITUDE == 40       \* wobble_amplitude = 40
WOBBLE_DECAY     == 6        \* wobble_decay = 6.0
WOBBLE_PERIOD    == 400      \* wobble_freq = 2.5: one turn in 400 ms
TARGET_LIFT      == 150      \* overlay_y_target = '(H-h)/2-150'
FRAME_HEIGHT     == 1920     \* scale 1080 x 1920: the H of the overlay

MaxAnimationTime == 1600     \* the instants studied are 0 .. MaxAnimationTime
CardHeights      == {300, 421}

\* overlay_y_target, for a card h pixels high.
OverlayYTarget(h) == ((FRAME_HEIGHT - h) * PX) \div 2 - TARGET_LIFT * PX

\* sin(2*PI*wobble_freq*wobble_t) in thousandths, wobble_t = k ms, by
\* Bhaskara's formula (within 0.002 of the sine, exact where the sine is 0
\* or 1).
SinMilli(k) ==
    LET half == WOBBLE_PERIOD \div 2
        j    == k % WOBBLE_PERIOD
        i    == IF j <= half THEN j ELSE j - half
        b    == (16000 * i * (half - i)) \div (5 * half * half - 4 * i * (half - i))
    IN  IF j <= half THEN b ELSE 0 - b

\* exp(x) in thousandths, x in thousandths, by the first n terms of its series.
RECURSIVE ExpSeries(_, _, _)
ExpSeries(x, n, acc) ==
    IF n = 0 THEN acc
    ELSE ExpSeries(x, n - 1, 1000 + (x * acc) \div (n * 1000))

\* exp(-wobble_decay*wobble_t) in thousandths, wobble_t = k ms.
ExpMilli(k) == (1000 * 1000) \div ExpSeries(WOBBLE_DECAY * k, 12, 1000)

\* A faulty wobble: it starts at its full amplitude.
wobble_from_amplitude(t) ==
    IF t > WOBBLE_START
    THEN WOBBLE_AMPLITUDE * ExpMilli(t - WOBBLE_START) * (PX \div 1000)
    ELSE 0

\* wobble: if(gt(t, wobble_start), amplitude * exp(..) * sin(..), 0).
wobble(t) ==
    IF t > WOBBLE_START
    THEN LET k == t - WOBBLE_START
             m == WOBBLE_AMPLITUDE * SinMilli(k) * ExpMilli(k)
         IN  IF m >= 0 THEN m \div ((1000 * 1000) \div PX)
             ELSE 0 - ((0 - m) \div ((1000 * 1000) \div PX))
    ELSE 0

\* eased: 1 - pow(1 - min(t/slide_duration, 1.0), 3), in units of 1/PX.
Eased(t) ==
    IF t >= SLIDE_DURATION THEN PX
    ELSE LET r == SLIDE_DURATION - t
             cube == SLIDE_DURATION * SLIDE_DURATION * SLIDE_DURATION
         IN  PX - (r * r * r) \div (cube \div PX)

\* slide_y: H - (H - target) * eased.
SlideY(t, h) ==
    FRAME_HEIGHT * PX - ((FRAME_HEIGHT + h + 2 * TARGET_LIFT) * Eased(t)) \div 2

\* y_expr: if(lt(t, freeze_t), slide_y + wobble, target).
y_expr(t, h) ==
    IF t < FREEZE_T THEN SlideY(t, h) + wobble(t) ELSE OverlayYTarget(h)

SlideInputs == [t : 0 .. MaxAnimationTime, h : CardHeights]

SlidePosition == Applies("slide", y_expr(input.t, input.h))

\* ---- the background music (build_music, lines 2032-2049) ----------------------
MUSIC_SPEED == 115       \* adjusted_video_duration = audio_duration / 1.15
FADE_IN     == 2000      \* afade t='in', st=0, d=2
FADE_OUT    == 3000      \* afade t='out', d=3

MusicNarrations == {2000, 3000, 3450, 3451, 42000, 60000}   \* in ms

\* a - ms, for a fraction a.
FracLess(a, ms) == Frac(a[1] - ms * a[2], a[2])

\* A faulty start of the fade-out: five seconds before the end.
fade_start_inner_early(adjusted_video_duration) ==
    IF FracLeq(Frac(FADE_OUT + FADE_IN, 1), adjusted_video_duration)
    THEN FracLess(adjusted_video_duration, FADE_OUT + FADE_IN)
    ELSE Frac(0, 1)

\* fade_start_inner = max(0, adjusted_video_duration - 3)
fade_start_inner(adjusted_video_duration) ==
    IF FracLeq(Frac(FADE_OUT, 1), adjusted_video_duration)
    THEN FracLess(adjusted_video_duration, FADE_OUT)
    ELSE Frac(0, 1)

\* build_music: where the music is trimmed and how it is faded.
build_music(audio) ==
    LET adjusted_video_duration == DivSpeed(audio, MUSIC_SPEED)
    IN  [atrim_end |-> adjusted_video_duration,
         fade_in   |-> [st |-> Frac(0, 1), d |-> FADE_IN],
         fade_out  |-> [st |-> fade_start_inner(adjusted_video_duration),
                        d  |-> FADE_OUT]]

BuildMusic == Applies("music", build_music(input))

\* ---- the reading time of a title (lines 1742-1746) ----------------------------
MaxTitleWords == 40

\* word_count = len(title.split()), for titles of up to MaxTitleWords words.
WordCounts == 0 .. MaxTitleWords

CalculateReadingTime == Applies("reading_time", ReadingTime(input))

\* ---- the counts on the card (_format_number, lines 1758-1762) -----------------
MaxCount == 2600

\* The counts studied: every small one, and a few large ones.
Counts == (0 .. MaxCount) \cup {12345, 99950, 999949, 999950, 1234567}

\* A string is modelled as the sequence of its characters.
DigitChars == <<"0", "1", "2", "3", "4", "5", "6", "7", "8", "9">>

RECURSIVE str(_)
\* str(num), for num >= 0.
str(num) ==
    IF num < 10 THEN <<DigitChars[num + 1]>>
    ELSE str(num \div 10) \o <<DigitChars[(num % 10) + 1]>>

RECURSIVE Log2Floor(_, _, _)
\* The largest e >= from with 2^e * d <= k.
Log2Floor(k, d, from) ==
    IF 2 * d <= k THEN Log2Floor(k, 2 * d, from + 1) ELSE from

\* 2^n mod 5.
Pow2Mod5(n) == <<1, 2, 4, 3>>[(n % 4) + 1]

\* Whether the double nearest to k/20 (k not a multiple of 5, k >= 20) lies
\* above k/20.  A double keeps 52 - e binary places of a value in
\* [2^e, 2^(e+1)); what is cut from k/20 there is (2^(50-e) * k mod 5) / 5 of
\* the last place, and the division rounds up when that is more than a half.
DoubleIsAbove(k) ==
    LET e == Log2Floor(k, 20, 0)
    IN  (Pow2Mod5(50 - e) * (k % 5)) % 5 >= 3

\* A faulty format: the tenths cut off, not rounded.
OneDecimalTruncated(num) == num \div 100

\* The tenths printed by f"{num/1000:.1f}": the double num/1000 rounded to
\* the nearest tenth, a tie (x.25 and x.75 are doubles) going to the even
\* tenth; x.05, x.15, .. are not doubles and go where the double lies.
OneDecimal(num) ==
    LET q   == num \div 100
        rem == num % 100
    IN  IF rem < 50 THEN q
        ELSE IF rem > 50 THEN q + 1
        ELSE IF num % 500 = 250 THEN (IF q % 2 = 0 THEN q ELSE q + 1)
        ELSE IF DoubleIsAbove(num \div 50) THEN q + 1 ELSE q

\* _format_number
format_number(num) ==
    IF num >= 1000
    THEN LET tenths == OneDecimal(num)
         IN  str(tenths \div 10) \o <<".", DigitChars[(tenths % 10) + 1], "k">>
    ELSE str(num)

FormatNumber == Applies("format_number", format_number(input))

\* ---- fetching a post (RedditScraper, lines 167-293 and 344-506) ---------------
\* get_reddit_story and get_ask_post_with_comments call themselves again when
\* no post qualifies.  The call in progress is kept in `result`: the
\* arguments of the innermost invocation, the invocations made so far, and
\* what the call gave back; `applied` says the call is over.  One step is
\* one invocation: its fetch, its filter and what it does next.
DEFAULT_MIN_SCORE    == 1000    \* min_score: int = 1000
DEFAULT_MIN_COMMENTS == 100     \* min_comments: int = 100
FLOOR_SCORE          == 500     \* max(500, min_score // 2)
FLOOR_COMMENTS       == 50      \* max(50, min_comments // 2)

NoPost == [id |-> "none", score |-> 0, num_comments |-> 0, sound |-> FALSE,
           bonus |-> 0]

\* A post of a listing: `sound` stands for the tests that do not depend on
\* the thresholds (length, upvote_ratio, over_18, stickied, removed), `bonus`
\* for what upvote_ratio and the title add to the engagement score.
Post(id, score, num_comments, bonus) ==
    [id |-> id, score |-> score, num_comments |-> num_comments,
     sound |-> TRUE, bonus |-> bonus]

PostIds == {"a", "b", "c", "d"}

\* What a fetch can bring: listings of posts above the default thresholds,
\* between the floor and the defaults, and below the floor.
Listings ==
    { <<>>,
      <<Post("c", 400, 30, 0)>>,
      <<Post("b", 700, 60, 0)>>,
      <<Post("a", 1500, 200, 500), Post("b", 700, 60, 0)>>,
      <<Post("a", 1500, 200, 500), Post("d", 1200, 150, 0)>>,
      <<Post("d", 1200, 150, 0), Post("c", 400, 30, 0)>> }

Trackers == {{}, {"a"}, {"a", "b"}, {"a", "b", "d"}}

StartScores == {DEFAULT_MIN_SCORE, 1500}

\* scored_posts.sort(reverse=True) and scored_posts[:max(1, len // 5)]: with
\* fewer than ten posts that is the first post of the highest engagement
\* score, and random.choice has one post to choose from.
Selected(scored_posts, engagement_score) ==
    LET n == Len(scored_posts)
        i == CHOOSE k \in 1 .. n :
                 /\ \A m \in 1 .. n :
                        engagement_score[m] <= engagement_score[k]
                 /\ \A m \in 1 .. (k - 1) :
                        engagement_score[m] < engagement_score[k]
    IN  scored_posts[i]

Halved(x, floor) == IF x \div 2 > floor THEN x \div 2 ELSE floor

Frame(avoid_repeats, min_comments, min_score) ==
    [avoid_repeats |-> avoid_repeats, min_comments |-> min_comments,
     min_score |-> min_score]

\* The call as it starts: no invocation made yet.
Call(avoid_repeats, min_comments, min_score) ==
    [frame    |-> Frame(avoid_repeats, min_comments, min_score),
     trail    |-> <<>>,
     listing  |-> <<>>,
     returned |-> NoPost,
     raised   |-> FALSE]

StudyCall(f, x) ==
    /\ fn = f
    /\ input = x
    /\ result = Call(x.avoid_repeats, DEFAULT_MIN_COMMENTS, x.min_score)
    /\ applied = FALSE

CallInputs ==
    [used_posts_tracker : Trackers, avoid_repeats : BOOLEAN,
     min_score : StartScores]

\* What every invocation does with the call: it is added to the trail.
Invoked(listing) ==
    [result EXCEPT !.trail = Append(result.trail, result.frame),
                   !.listing = listing]

Raise(call)      == [call EXCEPT !.raised = TRUE]
Return(call, p)  == [call EXCEPT !.returned = p]
Recurse(call, f) == [call EXCEPT !.frame = f]

\* Lines 212-214 and 375-377: a post already used is skipped.
Skipped(post, avoid_repeats) ==
    avoid_repeats /\ post.id \in input.used_posts_tracker

\* Lines 216-223: the post goes into scored_posts.
StoryQualifies(post) ==
    /\ ~Skipped(post, result.frame.avoid_repeats)
    /\ post.sound
    /\ post.score > result.frame.min_score
    /\ post.num_comments > 15

StoryEngagement(post) == post.score * 4 + post.num_comments * 3 + post.bonus

\* A faulty retry: the halving has no floor.
StoryRetryWithoutFloor(call) ==
    LET f == call.frame
    IN  IF f.min_score > FLOOR_SCORE
        THEN Recurse(call, Frame(f.avoid_repeats, f.min_comments,
                                 f.min_score \div 2 - 1))
        ELSE IF f.avoid_repeats /\ input.used_posts_tracker # {}
        THEN Recurse(call, Frame(FALSE, f.min_comments, DEFAULT_MIN_SCORE))
        ELSE Raise(call)

\* Lines 241-250: no post qualified.
StoryRetry(call) ==
    LET f == call.frame
    IN  IF f.min_score > FLOOR_SCORE
        THEN Recurse(call, Frame(f.avoid_repeats, f.min_comments,
                                 Halved(f.min_score, FLOOR_SCORE)))
        ELSE IF f.avoid_repeats /\ input.used_posts_tracker # {}
        THEN Recurse(call, Frame(FALSE, f.min_comments, DEFAULT_MIN_SCORE))
        ELSE Raise(call)

\* One invocation of get_reddit_story.  http_ok: the listing came with
\* status 200.
GetRedditStory(http_ok, listing) ==
    /\ fn = "get_reddit_story"
    /\ ~applied
    /\ LET call == Invoked(IF http_ok THEN listing ELSE <<>>)
           scored_posts == SelectSeq(listing, StoryQualifies)
           after == IF ~http_ok THEN Raise(call)
                    ELSE IF scored_posts = <<>> THEN StoryRetry(call)
                    ELSE Return(call,
                                Selected(scored_posts,
                                         [i \in 1 .. Len(scored_posts) |->
                                             StoryEngagement(scored_posts[i])]))
       IN  /\ result' = after
           /\ applied' = (after.raised \/ after.returned # NoPost)
    /\ UNCHANGED <<fn, input, webvars, rendervars>>

\* Lines 379-384.
AskQualifies(post) ==
    /\ ~Skipped(post, result.frame.avoid_repeats)
    /\ post.sound
    /\ post.num_comments > result.frame.min_comments
    /\ post.score > result.frame.min_score

AskEngagement(post) == post.score * 3 + post.num_comments * 5 + post.bonus

\* Lines 402-416: no post qualified.
AskRetry(call) ==
    LET f == call.frame
    IN  IF f.min_comments > FLOOR_COMMENTS
        THEN Recurse(call, Frame(f.avoid_repeats,
                                 Halved(f.min_comments, FLOOR_COMMENTS),
                                 Halved(f.min_score, FLOOR_SCORE)))
        ELSE IF f.avoid_repeats /\ input.used_posts_tracker # {}
        THEN Recurse(call, Frame(FALSE, DEFAULT_MIN_COMMENTS,
                                 DEFAULT_MIN_SCORE))
        ELSE Raise(call)

\* One invocation of get_ask_post_with_comments.  comments_ok: the comments
\* of the selected post were fetched and some are good (lines 428-463).
GetAskPostWithComments(http_ok, listing, comments_ok) ==
    /\ fn = "get_ask_post_with_comments"
    /\ ~applied
    /\ LET call == Invoked(IF http_ok THEN listing ELSE <<>>)
           scored_posts == SelectSeq(listing, AskQualifies)
           after == IF ~http_ok THEN Raise(call)
                    ELSE IF scored_posts = <<>> THEN AskRetry(call)
                    ELSE IF ~comments_ok THEN Raise(call)
                    ELSE Return(call,
                                Selected(scored_posts,
                                         [i \in 1 .. Len(scored_posts) |->
                                             AskEngagement(scored_posts[i])]))
       IN  /\ result' = after
           /\ applied' = (after.raised \/ after.returned # NoPost)
    /\ UNCHANGED <<fn, input, webvars, rendervars>>

FetchPost ==
    \/ \E http_ok \in BOOLEAN, listing \in Listings :
           GetRedditStory(http_ok, listing)
    \/ \E http_ok \in BOOLEAN, listing \in Listings, comments_ok \in BOOLEAN :
           GetAskPostWithComments(http_ok, listing, comments_ok)

\* ---- the used background videos (MainApp, lines 2598-2628, 2762-2871) ---------
\* Runs of MainApp.run one after another, with auto-upload enabled.  The
\* state of the runs is kept in `result`: the history file, how often each
\* video went out with a successful upload, and what the last run did.
MaxRuns == 5

Folders == {{"v1"}, {"v1", "v2"}, {"v1", "v2", "v3"}}

Range(seq) == {seq[i] : i \in 1 .. Len(seq)}

\* used_content.json: readable or not, and its list of used videos.
HistoryFile(readable, videos) == [readable |-> readable, videos |-> videos]

\* _load_used_content: the list of the file, or the default when the file
\* is missing or cannot be read.
load_used_content(file) == IF file.readable THEN file.videos ELSE <<>>

\* What open and json.dump can do in _save_used_content: write the file,
\* fail before the file is touched, or fail after it was truncated.  The
\* failure is printed and swallowed.
SaveOutcomes == {"saved", "not_opened", "cut_short"}

save_used_content(file, videos, how) ==
    IF how = "saved" THEN HistoryFile(TRUE, videos)
    ELSE IF how = "not_opened" THEN file
    ELSE HistoryFile(FALSE, <<>>)

\* A faulty selection: every video counts as unused.
unused_videos_all(videos, used_videos) == videos

\* unused_videos = [v for v in videos if v not in used_videos]
unused_videos(videos, used_videos) == videos \ Range(used_videos)

\* _mark_as_used('videos', item)
mark_as_used(file, item, how) ==
    LET used == load_used_content(file)
    IN  IF item \notin Range(used)
        THEN save_used_content(file, Append(used, item), how)
        ELSE file

Runs(file, uses, writes_ok, runs, last) ==
    [file |-> file, uses |-> uses, writes_ok |-> writes_ok, runs |-> runs,
     last |-> last]

NoRun == [selected |-> "none", used |-> {}, unused |-> {}, reset |-> FALSE,
          uploaded |-> FALSE]

StudyRuns(videos) ==
    /\ fn = "run"
    /\ input = videos
    /\ result = Runs(HistoryFile(TRUE, <<>>), [v \in videos |-> 0], TRUE, 0,
                     NoRun)
    /\ applied = FALSE

\* MainApp.run from the choice of the background video on.  pick: what
\* random.choice takes; upload_successful: the video was rendered and
\* uploader.upload returned True; reset_outcome, mark_outcome: what becomes
\* of the two writes of the history file, if they are made.
Run(pick, upload_successful, reset_outcome, mark_outcome) ==
    /\ fn = "run"
    /\ ~applied
    /\ LET videos      == input
           used_videos == load_used_content(result.file)
           unused      == unused_videos(videos, used_videos)
           reset       == unused = {}
           file1       == IF reset
                          THEN save_used_content(result.file, <<>>,
                                                 reset_outcome)
                          ELSE result.file
           candidates  == IF reset THEN videos ELSE unused
           file2       == IF upload_successful
                          THEN mark_as_used(file1, pick, mark_outcome)
                          ELSE file1
           marking     == upload_successful
                              /\ pick \notin Range(load_used_content(file1))
       IN  /\ pick \in candidates
           /\ reset \/ reset_outcome = "saved"
           /\ marking \/ mark_outcome = "saved"
           /\ result' =
                  Runs(file2,
                       IF upload_successful
                       THEN [result.uses EXCEPT ![pick] = @ + 1]
                       ELSE result.uses,
                       result.writes_ok /\ reset_outcome = "saved"
                                        /\ mark_outcome = "saved",
                       result.runs + 1,
                       [selected |-> pick, used |-> Range(used_videos),
                        unused |-> unused, reset |-> reset,
                        uploaded |-> upload_successful])
           /\ applied' = (result.runs + 1 = MaxRuns)
    /\ UNCHANGED <<fn, input, webvars, rendervars>>

RunOnce ==
    \E pick \in {"v1", "v2", "v3"}, upload_successful \in BOOLEAN,
       reset_outcome \in SaveOutcomes, mark_outcome \in SaveOutcomes :
        Run(pick, upload_successful, reset_outcome, mark_outcome)

\* ---- the narration (create_voiceover, lines 1009-1168) ------------------------
\* One step is one attempt to make the narration.  The call is kept in
\* `result`: where it stands, the Edge voices not yet tried, how often each
\* voice was tried, the attempts made, the narration file, and how the call
\* ended.  Every caller leaves
\* tts_engine at None.
male_voices ==
    {"en-US-DavisNeural", "en-US-ChristopherNeural", "en-US-GuyNeural",
     "en-US-JacobNeural", "en-US-JasonNeural", "en-US-TonyNeural",
     "en-GB-RyanNeural", "en-AU-WilliamNeural"}

female_voices ==
    {"en-US-AriaNeural", "en-US-JennyNeural", "en-US-MichelleNeural",
     "en-GB-SoniaNeural", "en-AU-NatashaNeural"}

voice_options(gender) == IF gender = "male" THEN male_voices ELSE female_voices

\* The narration file: whether it exists, and its size in bytes.
Absent == [exists |-> FALSE, size |-> 0]

Written(size) == [exists |-> TRUE, size |-> size]

\* What an attempt can leave behind when it does not raise.
Leavings == {Absent, Written(0), Written(500), Written(5000)}

\* A faulty test of the file: its size is not looked at.
valid_file_of_any_size(file, min_size) == TRUE

\* os.path.exists(output_file) and os.path.getsize(output_file) > min_size
valid_file(file, min_size) == file.exists /\ file.size > min_size

Voiceover(stage, remaining, tried, attempts, file, ending) ==
    [stage |-> stage, remaining |-> remaining, tried |-> tried,
     attempts |-> attempts, file |-> file, ending |-> ending]

Attempt(engine, succeeded) == [engine |-> engine, succeeded |-> succeeded]

VoiceoverInputs ==
    [elevenlabs_client : BOOLEAN, EDGE_TTS_AVAILABLE : BOOLEAN,
     gender : {"male", "female"}]

StudyVoiceover(x) ==
    /\ fn = "create_voiceover"
    /\ input = x
    /\ result = Voiceover(IF x.elevenlabs_client THEN "elevenlabs" ELSE "edge",
                          voice_options(x.gender),
                          [v \in male_voices \cup female_voices |-> 0],
                          <<>>, Absent, "none")
    /\ applied = FALSE

Voicing(stage) == fn = "create_voiceover" /\ ~applied /\ result.stage = stage

Ends(after) ==
    /\ result' = after
    /\ applied' = (after.ending # "none")
    /\ UNCHANGED <<fn, input, webvars, rendervars>>

\* Lines 1027-1033 and 1112-1168: the attempt with ElevenLabs.  A failure
\* removes the file and goes on to Edge.
TryElevenLabs(raises, left) ==
    /\ Voicing("elevenlabs")
    /\ LET ok == ~raises /\ valid_file(left, 1000)
           attempts == Append(result.attempts, Attempt("elevenlabs", ok))
       IN  Ends(IF ok
                THEN Voiceover("done", result.remaining, result.tried,
                               attempts, left, "returned")
                ELSE Voiceover("edge", result.remaining, result.tried,
                               attempts, Absent, "none"))

\* Lines 1035-1038: no Edge TTS.
NoEdge ==
    /\ Voicing("edge")
    /\ ~input.EDGE_TTS_AVAILABLE
    /\ Ends([result EXCEPT !.stage = "done", !.ending = "raised"])

\* Lines 1060-1084: the next voice of the shuffled list.
TryEdgeVoice(voice, raises, left) ==
    /\ Voicing("edge")
    /\ input.EDGE_TTS_AVAILABLE
    /\ voice \in result.remaining
    /\ LET ok == ~raises /\ valid_file(left, 1000)
           attempts  == Append(result.attempts, Attempt("edge", ok))
           remaining == result.remaining \ {voice}
           tried     == [result.tried EXCEPT ![voice] = @ + 1]
       IN  Ends(IF ok
                THEN Voiceover("done", remaining, tried, attempts, left,
                               "returned")
                ELSE Voiceover("edge", remaining, tried, attempts, Absent,
                               "none"))

\* Lines 1086-1107: every voice failed; the simplified text, once.
TrySimplified(raises, left) ==
    /\ Voicing("edge")
    /\ input.EDGE_TTS_AVAILABLE
    /\ result.remaining = {}
    /\ LET ok == ~raises /\ valid_file(left, 100)
           attempts == Append(result.attempts, Attempt("simplified", ok))
       IN  Ends(Voiceover("done", {}, result.tried, attempts, left,
                          IF ok THEN "returned" ELSE "raised"))

VoiceoverAttempt ==
    \/ \E raises \in BOOLEAN, left \in Leavings : TryElevenLabs(raises, left)
    \/ NoEdge
    \/ \E voice \in male_voices \cup female_voices, raises \in BOOLEAN,
          left \in Leavings : TryEdgeVoice(voice, raises, left)
    \/ \E raises \in BOOLEAN, left \in Leavings : TrySimplified(raises, left)

\* ---- the title on the card (_create_reddit_card, lines 1248-1302, 1470-1558) --
\* A title is the sequence of its words; a word is its width in pixels in
\* the title font, and the width of a line is that of its words and of the
\* spaces between them.
CARD_WIDTH   == 900      \* card_width = 900
CARD_PADDING == 40       \* padding = 40
CARD_SCALE   == 6        \* scale = 6

MaxTitleLength == 4      \* words in a title
SpaceWidth     == 50     \* pixels of a space in the title font

WordWidths == {900, 1500, 2100}

CardTitles ==
    UNION {[1 .. n -> WordWidths] : n \in 0 .. MaxTitleLength}

RECURSIVE TextWidth(_)
\* draw.textbbox((0, 0), line.rstrip(), font=font)[2]
TextWidth(line) ==
    IF line = <<>> THEN 0
    ELSE IF Len(line) = 1 THEN line[1]
    ELSE line[1] + SpaceWidth + TextWidth(Tail(line))

RECURSIVE WrapFrom(_, _, _, _)
\* The loop of wrap_text over the words left, and its last append.
WrapFrom(words, current_line, lines, max_width) ==
    IF words = <<>> THEN Append(lines, current_line)
    ELSE LET test_line == Append(current_line, Head(words))
         IN  IF TextWidth(test_line) <= max_width
             THEN WrapFrom(Tail(words), test_line, lines, max_width)
             ELSE WrapFrom(Tail(words), <<Head(words)>>,
                           Append(lines, current_line), max_width)

wrap_text(text, max_width) == WrapFrom(text, <<>>, <<>>, max_width)

\* Line 1275: the width the height is computed for.
content_width == (CARD_WIDTH - CARD_PADDING * 2) * CARD_SCALE

\* Lines 1470-1472, 1532 and 1550: the width the title is drawn in,
\* content_limit_x - cx.
draw_width ==
    LET ss_width           == CARD_WIDTH * CARD_SCALE
        ss_padding         == CARD_PADDING * CARD_SCALE
        cx                 == ss_padding
        content_right_edge == ss_width - ss_padding
        content_limit_x    == content_right_edge - (ss_padding * 2)
    IN  content_limit_x - cx

\* The title lines the height is computed from, and those drawn.
card_title_lines(title) ==
    [measured |-> wrap_text(title, content_width),
     drawn    |-> wrap_text(title, draw_width)]

WrapTitle == Applies("card_title", card_title_lines(input))

\* ---- GET /api/config (web_app.py, get_config, lines 253-272) ------------------
\* config.json: sections, each a dictionary.  The sections and keys are
\* those the program reads.
HIDDEN == "***HIDDEN***"

Sections ==
    [gemini         |-> [api_key |-> "gemini-key"],
     instagram      |-> [username |-> "someone", password |-> "insta-password",
                         auto_upload |-> "true"],
     web_auth       |-> [enabled |-> "true", username |-> "admin",
                         password_hash |-> "5e884898da28"],
     elevenlabs     |-> [api_key |-> "eleven-key"],
     video_settings |-> [output_path |-> "output/"]]

\* The config.json files studied: any of the sections can be missing.
Configs == {[name \in present |-> Sections[name]] :
                present \in SUBSET (DOMAIN Sections)}

\* dictionary[key] = value
Assigned(dictionary, key, value) ==
    [k \in (DOMAIN dictionary) \cup {key} |->
        IF k = key THEN value ELSE dictionary[k]]

\* Lines 263-268: what the handler does to the section.
safe_section(config, name) ==
    IF name = "gemini" THEN Assigned(config[name], "api_key", HIDDEN)
    ELSE IF name = "instagram" THEN Assigned(config[name], "password", HIDDEN)
    ELSE IF name = "web_auth"
    THEN Assigned(config[name], "password_hash", HIDDEN)
    ELSE config[name]

\* get_config: the body of the response.
get_config(config) ==
    [name \in DOMAIN config |-> safe_section(config, name)]

GetConfig == Applies("get_config", get_config(input))

\* ---- the computations together ------------------------------------------------
Studies ==
    \/ \E x \in StartInputs : Study("start_time", x)
    \/ \E x \in WordSequences : Study("single_word", x)
    \/ \E x \in WordSequences : Study("three_words", x)
    \/ \E x \in RescaleInputs : Study("rescale", x)
    \/ \E x \in CropInputs : Study("crop", x)
    \/ \E x \in SlideInputs : Study("slide", x)
    \/ \E x \in MusicNarrations : Study("music", x)
    \/ \E x \in WordCounts : Study("reading_time", x)
    \/ \E x \in Counts : Study("format_number", x)
    \/ \E x \in CallInputs : StudyCall("get_reddit_story", x)
    \/ \E x \in CallInputs : StudyCall("get_ask_post_with_comments", x)
    \/ \E x \in Folders : StudyRuns(x)
    \/ \E x \in VoiceoverInputs : StudyVoiceover(x)
    \/ \E x \in CardTitles : Study("card_title", x)
    \/ \E x \in Configs : Study("get_config", x)

NextPure ==
    \/ PickStartOffset
    \/ CreateSingleWordSubtitles
    \/ CreateThreeWordHighlightSubtitles
    \/ AdjustSubtitleSpeedOnce
    \/ CropToVertical
    \/ SlidePosition
    \/ BuildMusic
    \/ CalculateReadingTime
    \/ FormatNumber
    \/ FetchPost
    \/ RunOnce
    \/ VoiceoverAttempt
    \/ WrapTitle
    \/ GetConfig

InitPure == InitWeb /\ InitRender /\ Studies

SpecPure == InitPure /\ [][NextPure]_vars

(***************************************************************************)
(* Properties.                                                             *)
(***************************************************************************)

\* Some entry of the sequence q is x.
Occurs(q, x) == \E i \in 1 .. Len(q) : q[i] = x

\* q is p or p with one more entry, x, at its end.
SameOrAppended(p, q, x) == q = p \/ q = Append(p, x)

\* q is an initial part of p.
IsPrefix(q, p) == Len(q) <= Len(p) /\ q = SubSeq(p, 1, Len(q))

\* create_video_ffmpeg has returned to its caller.
RenderReturned == pc = "after_render"

(***************************************************************************)
(* C1: at no time are two render jobs (run_video_creation threads) active  *)
(* at once; a create_video request that arrives while a job is active is   *)
(* rejected and starts no job.                                             *)
(* Violated: create_video tests current_status, but only the thread it     *)
(* starts sets "running", later; a second request in between is accepted.  *)
(***************************************************************************)
C1_AtMostOneActiveJob == Cardinality(ActiveJobs) <= 1

(***************************************************************************)
(* C2: when create_video_ffmpeg returns, after a successful or a failed    *)
(* encode, neither the caption file the caption builder wrote nor its      *)
(* speed-rescaled derivative exists any more, and the card image, if one   *)
(* was saved, still exists.                                                *)
(* Violated: after line 1870 subtitle_file names the rescaled file, so the *)
(* clean-up removes that one only; a failed encode skips the clean-up.     *)
(***************************************************************************)
C2_CaptionFilesGoneCardKept ==
    RenderReturned =>
        /\ built_subtitle # None =>
               /\ ~Exists(files, built_subtitle)
               /\ ~Exists(files, AdjustedName(built_subtitle))
        /\ card_saved # None => Exists(files, card_saved)

(***************************************************************************)
(* C3: when runs of the pipeline never overlap in time, no file of one run *)
(* (narration, caption track, card, output video) is written, overwritten  *)
(* or deleted by another run: every step leaves the files of the runs      *)
(* other than the acting one as they are.                                  *)
(* Violated: the names carry whole seconds, and a run that starts in the   *)
(* second in which the run before it drew a name draws the same name.      *)
(***************************************************************************)
C3_NoRunTouchesAnothersFiles ==
    [][\A f \in files : f.owner # rid' => f \in files']_vars

(***************************************************************************)
(* C4: when word alignment fails, the render is not aborted: alignment is  *)
(* attempted exactly once, no caption track is produced, no caption        *)
(* burn-in step is added, and the render goes on with the card stage (and  *)
(* from there to the encode).                                              *)
(***************************************************************************)
AlignmentFailed == alignAttempts >= 1 /\ built_subtitle = None

C4_AlignmentFailureNotFatal ==
    /\ [](/\ alignAttempts <= 1
          /\ AlignmentFailed =>
                /\ subtitle_file = None
                /\ ~HasFilter(stream, "subtitles")
                /\ \A f \in files : f.speed = 0)
    /\ [][(pc = "subtitles" /\ pc' # pc) =>
              (pc' = "card" /\ alignAttempts' = 1)]_vars

\* An alignment failed and create_video_ffmpeg returned an output path.
C4_Witness ==
    /\ AlignmentFailed
    /\ RenderReturned
    /\ final_video_path # None
    /\ Exists(files, final_video_path)

(***************************************************************************)
(* C5: when rasterizing the card throws at any point, _create_reddit_card  *)
(* returns (None, 3.0) and the render goes on without an overlay step; a   *)
(* failure while the overlay step is built leaves the video graph as it    *)
(* was and the render goes on with the audio stages.                       *)
(***************************************************************************)
C5_CardFailureNotFatal ==
    /\ [](reddit_card_path = None =>
              /\ card_reading_time = DEFAULT_READING_TIME
              /\ ~HasFilter(stream, "overlay"))
    /\ [][(pc = "card" /\ pc' # pc) => pc' = "graph"]_vars
    /\ [][(pc = "overlay" /\ pc' # pc) =>
              /\ pc' = "audio"
              /\ \/ stream' = stream
                 \/ /\ Len(stream') = Len(stream) + 1
                    /\ SubSeq(stream', 1, Len(stream)) = stream
                    /\ stream'[Len(stream')].op = "overlay"]_vars

\* The card of a Reddit post could not be made (here: after the image was
\* saved) and create_video_ffmpeg returned an output path.
C5_Witness ==
    /\ content.reddit
    /\ card_saved # None
    /\ reddit_card_path = None
    /\ RenderReturned
    /\ final_video_path # None

(***************************************************************************)
(* C6: a failure of the chime, the swish or the music stage omits that     *)
(* layer alone: the stage leaves the audio mix as it stood or adds its own *)
(* layer, and the render goes on to the next stage; a failure of the       *)
(* narration stage goes to the outer handler, so that a render that        *)
(* returns a path has the narration as the first layer of its mix.         *)
(***************************************************************************)
C6_OptionalAudioLayers ==
    /\ [][(pc = "ding" /\ pc' # pc) =>
              (pc' = "swish" /\ SameOrAppended(final_audio, final_audio', "ding"))]_vars
    /\ [][(pc = "swish" /\ pc' # pc) =>
              (pc' = "music" /\ SameOrAppended(final_audio, final_audio', "swish"))]_vars
    /\ [][(pc = "music" /\ pc' # pc) =>
              (pc' = "encode" /\ SameOrAppended(final_audio, final_audio', "music"))]_vars
    /\ [][(pc = "audio" /\ pc' # pc) =>
              \/ pc' = "ding" /\ final_audio' = <<"narration">>
              \/ pc' = "ffmpeg_except" /\ final_audio' = final_audio]_vars
    /\ [](final_video_path # None =>
              Len(final_audio) >= 1 /\ final_audio[1] = "narration")

\* A music file was given, the music stage failed, and the render returned
\* an output path whose mix has no music layer.
C6_Witness ==
    /\ music
    /\ ~Occurs(final_audio, "music")
    /\ RenderReturned
    /\ final_video_path # None

(***************************************************************************)
(* C7: on encoder failure one render does, in this order: the encoder is   *)
(* run once, its diagnostic stream is printed, and the failure is reported *)
(* to the caller with no output path; the encoder is never run a second    *)
(* time in the same render.                                                *)
(***************************************************************************)
EncoderFailureEvents == <<"run_failed", "stderr", "return_none">>

C7_EncoderFailureSequence ==
    /\ encodeRuns <= 1
    /\ Occurs(events, "run_failed") =>
          /\ encodeRuns = 1
          /\ IsPrefix(events, EncoderFailureEvents)
          /\ final_video_path = None
          /\ pc \in {"encode_failed", "ffmpeg_except", "after_render", "done"}
          /\ pc = "ffmpeg_except" => Occurs(events, "stderr")
          /\ pc \in {"after_render", "done"} => events = EncoderFailureEvents
          /\ pc = "done" => failure = "render_none"

\* The encoder failed and create_video_ffmpeg has returned.
C7_Witness ==
    /\ RenderReturned
    /\ events = EncoderFailureEvents
    /\ encodeRuns = 1

(***************************************************************************)
(* C8: a failure of script acquisition, of speech synthesis and of the     *)
(* render reach the caller of the pipeline as distinct error kinds: what   *)
(* the caller observes after a failure of one of the three stages differs  *)
(* from what it observes after any failure of the other two.               *)
(* Violated: MainApp.run returns None both when the script is missing and  *)
(* when the render failed (and when it succeeded).                         *)
(***************************************************************************)
CoreStages == {"script", "speech", "render"}

C8_CoreFailuresDistinct ==
    (pc = "done" /\ StageOf(failure) \in CoreStages) =>
        \A f \in Failures :
            (StageOf(f) \in CoreStages /\ StageOf(f) # StageOf(failure))
                => Observe(entry, f) # outcome

(***************************************************************************)
(* C9: whenever a caption track is burned into the video, it is the track  *)
(* whose timestamps were rescaled by the multiplier (1.15) of the video    *)
(* timeline and of the narration; a track with un-rescaled timestamps is   *)
(* never burned in.                                                        *)
(* Violated: _adjust_subtitle_speed returns the original file when pysubs2 *)
(* is missing or throws, and that file is burned in.                       *)
(***************************************************************************)
C9_BurnedTrackIsRescaled ==
    \A i \in 1 .. Len(stream) :
        (stream[i].op = "subtitles" /\ Exists(files, stream[i].arg)) =>
            /\ FileAt(files, stream[i].arg).speed = VIDEO_SPEED
            /\ FileAt(files, stream[i].arg).speed = AUDIO_TEMPO

(***************************************************************************)
(* C10: when the card is overlaid, it is visible exactly for t in          *)
(* [0, min(readingTime / S, audioDuration / S)] on the sped-up timeline,   *)
(* S the multiplier of the video and of the narration; the window never    *)
(* exceeds the length of the final video, audioDuration / S.               *)
(***************************************************************************)
\* Instants of the sped-up timeline at which visibility is compared, in ms.
SampleStep  == 250
SampleCount == 160

SampleTimes == {k * SampleStep : k \in 0 .. SampleCount}

\* enable='between(t,0,card_duration)' at the instant t (ms).
Visible(w, t) == FracLeq(Frac(w.from, 1), Frac(t, 1)) /\ FracLeq(Frac(t, 1), w.to)

C10_OverlayWindow ==
    HasFilter(stream, "overlay") =>
        LET w == FilterOf(stream, "overlay").arg
            reading == DivSpeed(card_reading_time, VIDEO_SPEED)
            length  == DivSpeed(audio_duration, AUDIO_TEMPO)
        IN  /\ VIDEO_SPEED = AUDIO_TEMPO
            /\ w.from = 0
            /\ FracEq(w.to, FracMin(reading, length))
            /\ FracLeq(w.to, length)
            /\ \A t \in SampleTimes :
                   Visible(w, t) <=>
                       (FracLeq(Frac(t, 1), reading) /\ FracLeq(Frac(t, 1), length))

\* A card whose reading time is longer than the narration was overlaid and
\* the render returned an output path.
C10_Witness ==
    /\ HasFilter(stream, "overlay")
    /\ card_reading_time > audio_duration
    /\ RenderReturned
    /\ final_video_path # None

C12_OneEventPerWord ==
    Applied("single_word") =>
        /\ Len(result) = Len(input)
        /\ \A i \in 1 .. Len(input) :
              /\ result[i].start = Ms(input[i].start)
              /\ result[i].end = Ms(input[i].end)
              /\ result[i].text = StripUpper(input[i].word)
              /\ input[i].start - 1000 < result[i].start * 1000
              /\ result[i].start * 1000 <= input[i].start
              /\ input[i].end - 1000 < result[i].end * 1000
              /\ result[i].end * 1000 <= input[i].end
        /\ \A i \in 1 .. Len(result) - 1 : result[i].start <= result[i + 1].start

\* A narration of MaxWords words, silences among them, has its events.
C12_Witness ==
    /\ Applied("single_word")
    /\ Len(input) = MaxWords
    /\ Len(result) = MaxWords
    /\ \E i \in 1 .. MaxWords : input[i].start # result[i].start * 1000

(***************************************************************************)
(* C13: for every sequence of N timed words, the three-word policy forms   *)
(* ceil(N/3) groups and emits one caption event per word that has a text,  *)
(* none for the padding placeholders of the last group: exactly N events   *)
(* when each of the N words has a text.                                    *)
(***************************************************************************)
\* Every word Whisper gave has a text.
AllSpoken(words) == \A i \in 1 .. Len(words) : StripUpper(words[i].word) # ""

\* The least number of groups of three that hold n words.
CeilThird(n) == CHOOSE k \in 0 .. n : 3 * k >= n /\ 3 * (k - 1) < n

LastOfGroup(k, n) ==
    LET last == 3 * (((k - 1) \div 3) + 1)
    IN  IF last < n THEN last ELSE n

TrackAt(stored, n) == (CHOOSE f \in stored : f.name = n).subs

\* |a - b| <= d
Within(a, b, d) == a - b <= d /\ b - a <= d

Wide(w, h) == w * 16 > h * 9

\* The crop rectangle lies inside the w x h frame.
InsideFrame(c, w, h) ==
    /\ c.x >= 0 /\ c.y >= 0 /\ c.w >= 0 /\ c.h >= 0
    /\ c.x + c.w <= w
    /\ c.y + c.h <= h

C16_CropExact ==
    Applied("crop") =>
        LET w == input.width
            h == input.height
            c == result
        IN  /\ InsideFrame(c, w, h)
            /\ IF Wide(w, h)
               THEN /\ c.h = h /\ c.y = 0
                    /\ c.w * 16 = h * 9
                    /\ c.x = w - (c.x + c.w)
               ELSE /\ c.w = w /\ c.x = 0
                    /\ c.h * 9 = w * 16
                    /\ c.y = h - (c.y + c.h)

(***************************************************************************)
(* C16, as the code has it: the kept width is h x 9/16 cut to a whole      *)
(* number of pixels (exact when 16 divides h), the kept height is w x 16/9 *)
(* cut to a whole number (exact when 9 divides w), and the margin on the   *)
(* left (top) is the one on the right (bottom) or one pixel less; the crop *)
(* rectangle lies inside the source frame.                                 *)
(***************************************************************************)
C16_CropWholePixels ==
    Applied("crop") =>
        LET w == input.width
            h == input.height
            c == result
        IN  /\ InsideFrame(c, w, h)
            /\ IF Wide(w, h)
               THEN /\ c.h = h /\ c.y = 0
                    /\ c.w * 16 <= h * 9 /\ h * 9 < (c.w + 1) * 16
                    /\ (w - (c.x + c.w)) - c.x \in {0, 1}
               ELSE /\ c.w = w /\ c.x = 0
                    /\ c.h * 9 <= w * 16 /\ w * 16 < (c.h + 1) * 9
                    /\ (h - (c.y + c.h)) - c.y \in {0, 1}

\* The 1920 x 1080 source: 607 pixels are kept, 656 cut on the left and 657
\* on the right.
C16_Witness ==
    /\ Applied("crop")
    /\ input.width = 1920 /\ input.height = 1080
    /\ result = [w |-> 607, h |-> 1080, x |-> 656, y |-> 0]

(***************************************************************************)
(* C17: the slide animation's vertical position is the frame height        *)
(* (bottom) at t = 0, is exactly the target at t = 0.8 s with a wobble     *)
(* term of 0 at that instant, is the target for every t >= 1.4 s, and is   *)
(* continuous across the slide-to-wobble boundary (0.8 s) and the          *)
(* wobble-to-freeze boundary (1.4 s): from one millisecond to the next the *)
(* position moves by less than a pixel at 0.8 s and by less than a         *)
(* twentieth of a pixel at 1.4 s.                                          *)
(***************************************************************************)
\* |y(t) - y(t - 1)|, for t >= 1.
StepTo(t, h) ==
    LET d == y_expr(t, h) - y_expr(t - 1, h)
    IN  IF d >= 0 THEN d ELSE 0 - d

C17_SlideAnimation ==
    Applied("slide") =>
        LET t == input.t
            h == input.h
        IN  /\ t = 0 => result = FRAME_HEIGHT * PX
            /\ t = WOBBLE_START =>
                  /\ result = OverlayYTarget(h)
                  /\ wobble(t) = 0
            /\ t >= FREEZE_T => result = OverlayYTarget(h)
            /\ t \in {WOBBLE_START, WOBBLE_START + 1} => StepTo(t, h) < PX
            /\ t \in {FREEZE_T, FREEZE_T + 1} => StepTo(t, h) * 20 < PX
            /\ t >= 1 => StepTo(t, h) < 6 * PX

\* The card is off its target while it wobbles: at the crest of the first
\* swing, 0.1 s after the slide has ended.
C17_Witness ==
    /\ Applied("slide")
    /\ input.t = WOBBLE_START + 100
    /\ result - OverlayYTarget(input.h) > 20 * PX

(***************************************************************************)
(* C18: the background music is trimmed to narrationDuration / S and its   *)
(* 3-second fade-out ends exactly at that trimmed duration (fade-out start *)
(* + 3 = trimmed duration), for every narration duration.                  *)
(* As stated this fails: for a narration shorter than 3.45 s the fade-out  *)
(* starts at 0 and would end at 3 s, after the trim.                       *)
(***************************************************************************)
\* The instant the fade-out of the music m ends.
FadeOutEnd(m) ==
    Frac(m.fade_out.st[1] + m.fade_out.d * m.fade_out.st[2], m.fade_out.st[2])

C18_FadeEndsAtTrim ==
    Applied("music") =>
        /\ FracEq(result.atrim_end, DivSpeed(input, AUDIO_TEMPO))
        /\ result.fade_out.d = 3000
        /\ FracEq(FadeOutEnd(result), result.atrim_end)

(***************************************************************************)
(* C18, as the code has it: the music is trimmed to narrationDuration / S; *)
(* when that is at least 3 s, the 3-second fade-out ends exactly at the    *)
(* trimmed duration; when it is shorter, the fade-out starts at 0 and the  *)
(* trim cuts it off before it has ended.                                   *)
(***************************************************************************)
C18_FadeEndsAtTrimWhenLongEnough ==
    Applied("music") =>
        /\ FracEq(result.atrim_end, DivSpeed(input, AUDIO_TEMPO))
        /\ result.fade_out.d = 3000
        /\ IF input * 100 >= 3000 * AUDIO_TEMPO
           THEN FracEq(FadeOutEnd(result), result.atrim_end)
           ELSE /\ FracEq(result.fade_out.st, Frac(0, 1))
                /\ ~FracLeq(FadeOutEnd(result), result.atrim_end)

\* A narration of 42 s: the music is cut at 42 / 1.15 s and its fade-out
\* starts 3 s before that.
C18_Witness ==
    /\ Applied("music")
    /\ input = 42000
    /\ FracEq(result.atrim_end, Frac(4200000, 115))
    /\ FracEq(result.fade_out.st, Frac(4200000 - 345000, 115))

(***************************************************************************)
(* C19: the swish is part of the audio mix only if an overlay card is      *)
(* present in the video: in every render whose output has the swish, the   *)
(* overlay card is composited into the video graph.                        *)
(* The swish stage asks only whether a card path was returned (line 2007), *)
(* not whether the overlay stage added the card (its failure is caught at  *)
(* line 1967), so a render can return an output with the swish and         *)
(* without the card.                                                       *)
(***************************************************************************)
C19_SwishOnlyWithCard ==
    (RenderReturned /\ final_video_path # None /\ Occurs(final_audio, "swish"))
        => HasFilter(stream, "overlay")

(***************************************************************************)
(* C20: for every title with w words, the reading time of the overlay card *)
(* is max(3.0, w / 2.5) seconds, plus 1.0 if w > 15 (5 words give 3.0, 20  *)
(* words give 9.0); it is never below 3.0 and never decreases as w grows.  *)
(* Times are in milliseconds; w / 2.5 s is 2000 w / 5 ms.                  *)
(***************************************************************************)
C20_ReadingTime ==
    Applied("reading_time") =>
        LET w == input
            fifths == IF 2000 * w > 15000 THEN 2000 * w ELSE 15000
        IN  /\ 5 * result = fifths + (IF w > 15 THEN 5000 ELSE 0)
            /\ (w = 5 => result = 3000)
            /\ (w = 20 => result = 9000)
            /\ result >= 3000
            /\ \A v \in 0 .. w : ReadingTime(v) <= result

\* A title of 20 words: 8 s of reading and one second more.
C20_Witness ==
    /\ Applied("reading_time")
    /\ input = 20
    /\ result = 9000

(***************************************************************************)
(* C21: _format_number renders every count below 1000 as its plain decimal *)
(* digits and every count of 1000 or more as the count divided by 1000     *)
(* with exactly one decimal followed by 'k' (999 gives '999', 1000 gives   *)
(* '1.0k', 12345 gives '12.3k').  The one decimal is the nearest tenth:    *)
(* the printed number is within 0.05 of count / 1000.                      *)
(***************************************************************************)
IsDigit(c) == \E d \in 1 .. 10 : DigitChars[d] = c

DigitValue(c) == (CHOOSE d \in 1 .. 10 : DigitChars[d] = c) - 1

RECURSIVE Value(_)
\* The number a sequence of digits writes.
Value(chars) ==
    IF Len(chars) = 0 THEN 0
    ELSE 10 * Value(SubSeq(chars, 1, Len(chars) - 1))
             + DigitValue(chars[Len(chars)])

\* A number in plain decimal digits, with no leading zero.
PlainDigits(chars) ==
    /\ Len(chars) >= 1
    /\ \A i \in 1 .. Len(chars) : IsDigit(chars[i])
    /\ (Len(chars) > 1 => chars[1] # "0")

C21_FormatNumber ==
    Applied("format_number") =>
        LET num == input
            n   == Len(result)
        IN  /\ num < 1000 => PlainDigits(result) /\ Value(result) = num
            /\ num >= 1000 =>
                  /\ n >= 4
                  /\ result[n] = "k"
                  /\ IsDigit(result[n - 1])
                  /\ result[n - 2] = "."
                  /\ PlainDigits(SubSeq(result, 1, n - 3))
                  /\ LET tenths == 10 * Value(SubSeq(result, 1, n - 3))
                                       + DigitValue(result[n - 1])
                     IN  /\ tenths * 100 - num <= 50
                         /\ num - tenths * 100 <= 50
            /\ (num = 999 => result = <<"9", "9", "9">>)
            /\ (num = 1000 => result = <<"1", ".", "0", "k">>)
            /\ (num = 12345 => result = <<"1", "2", ".", "3", "k">>)

\* 12345 upvotes are written 12.3k.
C21_Witness ==
    /\ Applied("format_number")
    /\ input = 12345
    /\ result = <<"1", "2", ".", "3", "k">>

(***************************************************************************)
(* C22: every accepted job drives the status idle -> running ->            *)
(* (completed or error) -> idle: after a job ends, the status becomes idle *)
(* again 30 seconds later without any further request, and between the     *)
(* job's end and that reset every create_video request is rejected.        *)
(* Checked here: while the reset of an ended job is still to come (its     *)
(* timer is not yet due), no request starts a job.  Two jobs accepted      *)
(* together (the status is set by the thread, not by the handler) end at   *)
(* different times, and the reset of the first makes the status idle       *)
(* before the reset of the second is due.                                  *)
(***************************************************************************)
JobAccepted == \E j \in JobIds : jobpc[j] = "unborn" /\ jobpc'[j] = "started"

C22_RejectedUntilReset ==
    [][JobAccepted => \A t \in timers : now >= t.due]_vars

(***************************************************************************)
(* C23: whenever the reported status is idle no render job is active: the  *)
(* status is already non-idle from the moment a request has been accepted, *)
(* and the delayed reset to idle never fires while a job is still running. *)
(* create_video starts the thread and returns with the status still idle   *)
(* (lines 243-247); the thread sets it to running at line 279.             *)
(***************************************************************************)
C23_IdleMeansNoActiveJob == current_status = "idle" => ActiveJobs = {}

(***************************************************************************)
(* C24: for one session, any two create_video requests that pass the rate *)
(* limit are at least 30 seconds apart; a request made less than 30        *)
(* seconds after the last one that passed is answered 429, starts no job,  *)
(* and leaves the session's timestamp and the job status unchanged.        *)
(***************************************************************************)
\* A step in which a create_video request of session s was answered.
Answered(s) ==
    /\ response'.session = s
    /\ response' # response \/ last_request'[s] # last_request[s]

Fetching == fn \in {"get_reddit_story", "get_ask_post_with_comments"}

RECURSIVE LadderLength(_, _)
\* The number of thresholds from x down to the floor, halving.
LadderLength(x, floor) ==
    IF x > floor THEN 1 + LadderLength(Halved(x, floor), floor) ELSE 1

\* The invocations a call can make: the ladder from its own threshold, and
\* the ladder from the default once repeat avoidance is off.
MaxFetches ==
    IF fn = "get_reddit_story"
    THEN LadderLength(input.min_score, FLOOR_SCORE)
             + LadderLength(DEFAULT_MIN_SCORE, FLOOR_SCORE)
    ELSE 2 * LadderLength(DEFAULT_MIN_COMMENTS, FLOOR_COMMENTS)

\* The invocations of the trail and the one to come, if the call goes on.
Invocations ==
    IF applied THEN result.trail ELSE Append(result.trail, result.frame)

\* From invocation a to the next one, b: a retry with halved thresholds.
IsHalving(a, b) ==
    /\ b.avoid_repeats = a.avoid_repeats
    /\ b.min_score >= FLOOR_SCORE
    /\ \/ b.min_score = a.min_score \div 2
       \/ b.min_score = FLOOR_SCORE /\ a.min_score \div 2 <= FLOOR_SCORE
    /\ IF fn = "get_reddit_story"
       THEN a.min_score > FLOOR_SCORE
       ELSE /\ a.min_comments > FLOOR_COMMENTS
            /\ b.min_comments >= FLOOR_COMMENTS
            /\ \/ b.min_comments = a.min_comments \div 2
               \/ /\ b.min_comments = FLOOR_COMMENTS
                  /\ a.min_comments \div 2 <= FLOOR_COMMENTS

\* From invocation a to the next one, b: repeat avoidance is switched off,
\* at the floor, and the thresholds start again from the defaults.
IsSwitchOff(a, b) ==
    /\ a.avoid_repeats /\ ~b.avoid_repeats
    /\ input.used_posts_tracker # {}
    /\ b.min_score = DEFAULT_MIN_SCORE
    /\ IF fn = "get_reddit_story"
       THEN a.min_score <= FLOOR_SCORE
       ELSE a.min_comments <= FLOOR_COMMENTS
            /\ b.min_comments = DEFAULT_MIN_COMMENTS

C25_BoundedRetries ==
    Fetching =>
        LET inv == Invocations
            n   == Len(inv)
        IN  /\ n <= MaxFetches
            /\ \A i \in 1 .. (n - 1) :
                   IsHalving(inv[i], inv[i + 1]) \/ IsSwitchOff(inv[i], inv[i + 1])
            /\ Cardinality({i \in 1 .. (n - 1) :
                               IsSwitchOff(inv[i], inv[i + 1])}) <= 1
            /\ applied => /\ result.raised \/ result.returned # NoPost
                          /\ ~(result.raised /\ result.returned # NoPost)

\* No post ever qualified: the call went down its ladder, switched repeat
\* avoidance off, went down the default ladder and failed after the last
\* invocation it may make.
C25_Witness ==
    /\ Fetching
    /\ applied
    /\ result.raised
    /\ input.avoid_repeats
    /\ input.min_score = 1500
    /\ Len(result.trail) = MaxFetches
    /\ \E i \in 1 .. Len(result.trail) : ~result.trail[i].avoid_repeats

(***************************************************************************)
(* C26: with avoid_repeats on, get_reddit_story and                        *)
(* get_ask_post_with_comments never return a post whose id is in the       *)
(* used-posts tracker while the fetched listing holds an unused post that  *)
(* qualifies; a used post is returned only after no unused post qualified  *)
(* at every threshold of the retry ladder down to the floor.               *)
(* Every invocation fetches a listing of its own (of a subreddit chosen    *)
(* again at random), and once repeat avoidance is off the invocation does  *)
(* not look at the tracker: it returns the post of the highest engagement  *)
(* score, used or not.                                                     *)
(***************************************************************************)
\* The post qualifies at the thresholds of the invocation f, the tracker
\* left aside.
QualifiesAt(post, f) ==
    /\ post.sound
    /\ post.score > f.min_score
    /\ IF fn = "get_reddit_story" THEN post.num_comments > 15
       ELSE post.num_comments > f.min_comments

Unused(post) == post.id \notin input.used_posts_tracker

C26_NoRepeatWhileUnusedQualifies ==
    (Fetching /\ input.avoid_repeats /\ applied
       /\ result.returned # NoPost /\ ~Unused(result.returned))
    => ~\E k \in 1 .. Len(result.listing) :
           /\ Unused(result.listing[k])
           /\ QualifiesAt(result.listing[k], result.trail[Len(result.trail)])

(***************************************************************************)
(* C27: with auto-upload enabled, _get_random_background_video never       *)
(* returns a video recorded as used while an unused one exists, and clears *)
(* the used-video history only when every available video is used; since  *)
(* a video is recorded as used only after a successful upload and never    *)
(* twice, across successive successfully-uploaded runs every video is used *)
(* once before any is used a second time.                                  *)
(* As stated the last part fails: a write of the history file that fails   *)
(* is printed and swallowed, the upload is not recorded, and the same      *)
(* video can go out again while another has not gone out at all.           *)
(***************************************************************************)
Running == fn = "run" /\ result.runs > 0

\* The selection and the reset of the last run, against the history as the
\* run loaded it.
SelectionAvoidsUsed ==
    /\ result.last.selected \in input
    /\ result.last.unused # {} => result.last.selected \in result.last.unused
    /\ result.last.reset <=> input \subseteq result.last.used

\* A video is in the history only after a successful upload, and once.
RecordedAfterUpload ==
    LET used == load_used_content(result.file)
    IN  /\ \A v \in Range(used) : v \in input /\ result.uses[v] > 0
        /\ \A i, j \in 1 .. Len(used) : used[i] = used[j] => i = j

\* No video has gone out twice more often than another.
EveryVideoOnceBeforeAnyTwice ==
    \A v, w \in input : result.uses[v] - result.uses[w] <= 1

VoiceoverStudied == fn = "create_voiceover"

\* The places in the attempts made by the engine.
AttemptsBy(engine) ==
    {i \in 1 .. Len(result.attempts) : result.attempts[i].engine = engine}

C28_VoiceoverAttempts ==
    VoiceoverStudied =>
        LET a == result.attempts
            n == Len(a)
        IN  \* ElevenLabs is the first attempt, and only with a client.
            /\ AttemptsBy("elevenlabs")
                   = IF input.elevenlabs_client /\ n > 0 THEN {1} ELSE {}
            \* Each voice is of the chosen gender and is tried once.
            /\ \A v \in male_voices \cup female_voices :
                   /\ result.tried[v] <= 1
                   /\ result.tried[v] = 1 => v \in voice_options(input.gender)
            /\ Cardinality(AttemptsBy("edge"))
                   = Cardinality({v \in male_voices \cup female_voices :
                                     result.tried[v] > 0})
            \* One simplified attempt, the last, after every voice.
            /\ \A i \in AttemptsBy("simplified") :
                   /\ i = n
                   /\ Cardinality(AttemptsBy("edge"))
                          = Cardinality(voice_options(input.gender))
            \* Only the last attempt can have succeeded, and then the call
            \* has returned the path of a file that exists.
            /\ \A i \in 1 .. n :
                   a[i].succeeded => i = n /\ result.ending = "returned"
            /\ result.ending = "returned" =>
                   /\ n > 0 /\ a[n].succeeded
                   /\ result.file.exists
            \* It raises only when nothing is left to try.
            /\ result.ending = "raised" =>
                   /\ \A i \in 1 .. n : ~a[i].succeeded
                   /\ input.elevenlabs_client => AttemptsBy("elevenlabs") = {1}
                   /\ input.EDGE_TTS_AVAILABLE =>
                          /\ Cardinality(AttemptsBy("edge"))
                                 = Cardinality(voice_options(input.gender))
                          /\ AttemptsBy("simplified") = {n}

\* ElevenLabs and the five female voices failed; the simplified text gave
\* the narration.
C28_Witness ==
    /\ VoiceoverStudied
    /\ input.elevenlabs_client
    /\ input.gender = "female"
    /\ Len(result.attempts) = 7
    /\ result.ending = "returned"
    /\ result.file.exists

(***************************************************************************)
(* C29: the number of title lines used to compute the height of the        *)
(* overlay card equals the number of title lines drawn on the card, for    *)
(* every title: the drawn title never needs more lines than the height was *)
(* budgeted for.                                                           *)
(* The height is computed from the title wrapped at 4920 pixels (line      *)
(* 1275); the title is drawn wrapped at 4440 pixels (lines 1532 and 1550). *)
(***************************************************************************)
C29_TitleLinesAgree ==
    Applied("card_title") => Len(result.drawn) = Len(result.measured)

(***************************************************************************)
(* C30: the /api/config response never contains a secret value stored in  *)
(* config.json: every API key, password and password hash of every section *)
(* is replaced by a placeholder before the configuration is returned.      *)
(* The handler replaces gemini.api_key, instagram.password and             *)
(* web_auth.password_hash; the key of the elevenlabs section, read at      *)
(* main.py:957-958, is returned as stored.                                 *)
(***************************************************************************)
SecretKeys == {"api_key", "password", "password_hash"}

C30_NoSecretInResponse ==
    Applied("get_config") =>
        \A name \in DOMAIN result :
            \A key \in (DOMAIN result[name]) \cap SecretKeys :
                result[name][key] = HIDDEN

====
